---- MODULE Spec2Model ----
(***************************************************************************)
(* A model of the preprocessing pipeline: the impedance wrapper            *)
(* (configuration, validation, accumulation), the vector buffering of the  *)
(* raster enrichment, the LULC mapping, the OSM run (fetch, conversion,    *)
(* filtering, geometry repair) and the rasterization of protected areas.   *)
(***************************************************************************)
EXTENDS Integers, Sequences, FiniteSets, TLC

VARIABLES
    pc,                   \* position of the ImpedanceWrapper run
    impedance_stressors,  \* the registry: aliases in insertion order
    config_impedance,     \* self.config_impedance, the configuration in memory
    yaml_file,            \* contents of config_impedance.yaml on disk
    edits,                \* hand edits made to the YAML file so far
    warnings,             \* warnings.warn calls of validate_impedance_config
    validation,           \* "pending", "passed" or "failed" (ValueError)
    idx,                  \* stressors iterated by calculate_impedance
    max_result,           \* the accumulator local to calculate_impedance
    impedance_processor,  \* the local of calculate_impedance: last processor built
    processed,            \* one record per iterated stressor
    decay_runs,           \* update_impedance_with_decay calls: the accumulator used
    error,                \* exception that left the run, "none" when there is none
    years,                \* ImpedanceWrapper.years
    year_warned,          \* the constructor warned about the year
    crs,                  \* vector_preprocessor.crs: EPSG code of the LULC raster
    is_cartesian,         \* vector_preprocessor.is_cartesian
    vector_refine,        \* the input GeoPackage: the feature of each layer
    out_files,            \* the buffered GeoPackage of each layer
    buffer_log,           \* one record per buffer_features call
    gpkg_in,              \* the GeoPackage handed to fix_geometries_in_gpkg
    gpkg,                 \* the GeoPackage being repaired
    layer_idx,            \* layers iterated by fix_geometries_in_gpkg
    counts,               \* the three counters local to fix_geometries_in_gpkg
    layer_counts,         \* the counters as each layer's pass left them
    reports,              \* the reports printed by fix_geometries_in_gpkg
    repair_pc,    \* position of fix_geometries_in_gpkg
    fixed_gpkg,           \* the fixed_gpkg argument
    overwrite_original,   \* the overwrite_original argument
    input_file,           \* the file at input_gpkg
    fixed_file,           \* the file at a separate fixed_gpkg
    repair_caller,        \* who calls fix_geometries_in_gpkg
    temp_files,           \* the per-layer GeoPackages of gpkg_temp
    vector_file,          \* data/input/vector/osm_merged_{year}.gpkg
    osm_config_year,      \* the year entry of config.yaml
    osm_years,            \* Osm_PreProcessor.years
    osm_warned,           \* the constructor warned about the year
    osm_year,             \* Osm_Wrapper.year
    osm_files,            \* the files of the OSM output directory
    osm_touched,          \* the stage and year of every file read or written
    osm_pc,       \* position of Osm_Wrapper.get_osm_data
    osm_returned,         \* what fix_invalid_geometries gave back
    user_matching,        \* the user_matching entry of the configuration
    lulc_codes,           \* the lulc_codes entry of the configuration
    text_codes,           \* what text_matching.codes returns
    mapping_result, \* what lulc_mapping returned or raised
    lulc_found,           \* the stressors the LULC collaborator discovers
    osm_found,            \* the stressors the OSM collaborator discovers
    stressors_result, \* what process_stressors returned
    collaborators,        \* the collaborators process_stressors constructed
    pa_gdf,               \* Rasterizer_Processor.gdf: the establishment date of each area
    year_stamps,          \* Rasterizer_Processor.year_stamps
    keep_gpkg,            \* the keep_intermediate_gpkg argument
    pa_slices,            \* the pas_Y.gpkg files of the output directory
    pa_rasters,           \* the pas_Y.tif files of the output directory
    pa_todo,              \* the GeoPackages rasterize_pas_by_year has yet to visit
    raster_log,           \* one record per gdal_rasterize run
    pa_pc,        \* position of the protected-area rasterization
    query_name,           \* the query whose GeoJSON fix_invalid_geometries filters
    geojson_features,     \* the features of the GeoJSON file
    filtered_features,    \* the features written to the filtered file
    filter_pc,    \* position of the filtering
    impedance_tif,        \* the impedance_tif entry of config.yaml
    tif_on_disk,          \* the impedance raster exists
    use_exceptions,       \* GDAL raises instead of returning None
    max_value,    \* the outcome of get_impedance_max_value
    reclass_table,        \* the reclassification table, LULC code to impedance
    tiff_files,           \* the pixels of the input rasters, in the order of the loop
    tiff_idx,             \* rasters whose loop iteration has ended
    land_files,           \* per raster, the impedance file and the _compr file
    reclassified,         \* per raster, what reclassify_raster did
    land_pc,      \* position of UpdateLandImpedance.__init__
    shell_script,         \* the script as bash and dos2unix see it
    dos2unix_works,       \* dos2unix is installed and converts the file
    shell_depth,          \* nested calls of run_shell_command
    shell_runs,           \* how often the script was executed
    shell_outcome         \* how the outermost call ended

bvars == <<crs, is_cartesian, vector_refine, out_files, buffer_log>>

ivars == <<pc, impedance_stressors, config_impedance, yaml_file, edits, warnings,
           validation, idx, max_result, impedance_processor, processed,
           decay_runs, error, years, year_warned>>

gvars == <<gpkg_in, gpkg, layer_idx, counts, layer_counts, reports, repair_pc,
           fixed_gpkg, overwrite_original, input_file, fixed_file,
           repair_caller, temp_files, vector_file>>

ovars == <<osm_config_year, osm_years, osm_warned, osm_year, osm_files, osm_touched, osm_pc,
          osm_returned>>

mvars == <<user_matching, lulc_codes, text_codes, mapping_result>>

svars == <<lulc_found, osm_found, stressors_result, collaborators>>

pvars == <<pa_gdf, year_stamps, keep_gpkg, pa_slices, pa_rasters, pa_todo, raster_log, pa_pc>>

fvars == <<query_name, geojson_features, filtered_features, filter_pc>>

tvars == <<impedance_tif, tif_on_disk, use_exceptions, max_value>>

lvars == <<reclass_table, tiff_files, tiff_idx, land_files, reclassified, land_pc>>

hvars == <<shell_script, dos2unix_works, shell_depth, shell_runs, shell_outcome>>

----------------------------------------------------------------------------
(* Bounds *)

MaxStressors == 2
MaxEdits == 2
NumCells == 2
MaxEffect == 1
MaxWidthLen == 2
MaxCalls == 2
MaxLayers == 2
MaxFeatures == 2
MaxAreas == 2
MaxGeojson == 2
MaxTiffs == 2
RecursionLimit == 3

----------------------------------------------------------------------------
(* Python values of the impedance configuration *)

Aliases == {"lulc_urban", "roads_primary", "rail"}

PyNone == [type |-> "NoneType", val |-> "None"]
PyStr(s) == [type |-> "str", val |-> s]
PyDict(v) == [type |-> "dict", val |-> v]

\* ImpedanceWrapper.__init__: the template, with the constructor's defaults
\* types=None, decline_type='exp_decline', lambda_decay=500, k_value=500.
params_placeholder ==
    [k \in {"types", "decline_type", "exp_decline", "prop_decline"} |->
        CASE k = "types" -> PyNone
          [] k = "decline_type" -> PyStr("exp_decline")
          [] k = "exp_decline" -> PyDict("lambda_decay: 500")
          [] k = "prop_decline" -> PyDict("k_value: 500")]

TemplateKeys == DOMAIN params_placeholder

\* Keys a stressor's parameter set can hold in the YAML file: the template's and
\* one the template does not know.
YamlKeys == TemplateKeys \cup {"buffer"}

\* params_placeholder.keys(): the keys in the order the constructor writes them.
TemplateOrder == <<"types", "decline_type", "exp_decline", "prop_decline">>

\* A parameter set as the YAML file holds it: its items in the file's order,
\* which is the order stressor_params.items() iterates.
Item(k, v) == [key |-> k, value |-> v]
ItemKeys(p) == {p[i].key : i \in 1..Len(p)}
AsDict(p) ==
    [k \in ItemKeys(p) |-> p[CHOOSE i \in 1..Len(p) : p[i].key = k].value]

\* The template as a parameter set.
PlaceholderItems ==
    [i \in 1..Len(TemplateOrder) |->
        Item(TemplateOrder[i], params_placeholder[TemplateOrder[i]])]

\* Values a hand edit can write for a key.
YamlValues == {PyNone, PyStr("prop_decline"), PyDict("lambda_decay: 100")}

RECURSIVE SeqToSet(_)
SeqToSet(s) == IF s = <<>> THEN {} ELSE {Head(s)} \cup SeqToSet(Tail(s))

\* Registries: sequences of distinct aliases (a dict's keys, in insertion order).
DistinctSeqs(S, n) ==
    {s \in UNION {[1..k -> S] : k \in 0..n} :
        \A i, j \in 1..Len(s) : i # j => s[i] # s[j]}

Registries == DistinctSeqs(Aliases, MaxStressors)

Cells == 1..NumCells
EffectValues == 0..MaxEffect

\* An effect raster: one value per cell.  NoRaster is Python's None.
Rasters == [Cells -> EffectValues]
NoRaster == <<>>
ZeroRaster == [c \in Cells |-> 0]

\* The state of the 'initial_lulc' entry of the impedance configuration:
\* absent, present without 'enabled', or its 'enabled' value.
InitialLulcStates == {"absent", "no_enabled", "true", "false"}

\* A configuration dictionary: the file it was loaded from stands for the
\* entries that file gives it; 'initial_lulc' and the stressors' parameter sets
\* are the entries the program adds.
Config(lulc, stressors) ==
    [loaded_from |-> "config_impedance.yaml", initial_lulc |-> lulc,
     stressors |-> stressors]

NoStressors == [a \in {} |-> PlaceholderItems]

\* The main configuration (config.yaml): no 'initial_lulc', no stressor.
MainConfig ==
    [loaded_from |-> "config.yaml", initial_lulc |-> "absent",
     stressors |-> NoStressors]

\* impedance_processor = None
NoProcessor ==
    [none |-> TRUE, yaml_stressor |-> "", ds |-> FALSE, max_result |-> NoRaster,
     config_impedance |-> Config("absent", NoStressors)]

----------------------------------------------------------------------------
(* Impedance_config_processor *)

\* setup_config_impedance: 'initial_lulc' gets 'enabled': 'false' when the entry
\* or its 'enabled' field is missing or None.
setup_config_impedance(config) ==
    IF config.initial_lulc \in {"absent", "no_enabled"}
    THEN [config EXCEPT !.initial_lulc = "false"]
    ELSE config

\* A registry entry: the alias and the raster path registered under it.
Entry(a, r) == [alias |-> a, raster |-> r]

\* The raster a collaborator writes for a stressor.
RasterPath(writer, a) == [writer |-> writer, alias |-> a]

Found(writer, aliases) ==
    [i \in 1..Len(aliases) |-> Entry(aliases[i], RasterPath(writer, aliases[i]))]

Keys(reg) == [i \in 1..Len(reg) |-> reg[i].alias]

\* impedance_stressors[alias] = raster: a known key keeps its place and takes
\* the new value, a new key goes last.
SetItem(reg, e) ==
    IF e.alias \in SeqToSet(Keys(reg))
    THEN [i \in 1..Len(reg) |-> IF reg[i].alias = e.alias THEN e ELSE reg[i]]
    ELSE Append(reg, e)

RECURSIVE SetItems(_, _)
SetItems(reg, found) ==
    IF found = <<>> THEN reg
    ELSE SetItems(SetItem(reg, Head(found)), Tail(found))

\* Impedance_config.__init__: the first three parameters of interest, in the
\* order of the signature, and the fields they set.
Impedance_config(config, config_imp, reg) ==
    [config |-> config, config_impedance |-> config_imp,
     impedance_stressors |-> reg]

\* update_impedance_config of a collaborator: every stressor it discovers is
\* entered in its impedance_stressors and gets the template's default decay
\* parameters in its config_impedance, both updated in place and returned.
update_impedance_config(self, found) ==
    [impedance_stressors |-> SetItems(self.impedance_stressors, found),
     config_impedance |->
        [self.config_impedance EXCEPT !.stressors =
            [a \in DOMAIN self.config_impedance.stressors
                     \cup SeqToSet(Keys(found)) |->
                IF a \in SeqToSet(Keys(found)) THEN PlaceholderItems
                ELSE self.config_impedance.stressors[a]]]]

\* process_stressors: the LULC collaborator, then the OSM collaborator. Both
\* are constructed with self.config_impedance as the first positional
\* argument and self.config as the second, so the dictionary a collaborator
\* updates and returns as its config_impedance is the processor's self.config;
\* self.config_impedance is rebound to what the collaborator returned.
process_stressors(self_config, self_config_impedance, from_lulc, from_osm) ==
    LET lip == Impedance_config(self_config_impedance, self_config, <<>>)
        lulc == update_impedance_config(lip, from_lulc)
        oip == Impedance_config(lulc.config_impedance, lulc.config_impedance,
                                lulc.impedance_stressors)
        osm == update_impedance_config(oip, from_osm)
    IN [impedance_stressors |-> osm.impedance_stressors,
        config_impedance |-> osm.config_impedance,
        collaborators |-> <<lip, oip>>]

----------------------------------------------------------------------------
(* ImpedanceWrapper.validate_impedance_config *)

\* find_stressor_params: the parameter set stored under the alias.
find_stressor_params(validation_config, yaml_stressor) ==
    validation_config.stressors[yaml_stressor]

Warning(alias, kind, key) == [stressor |-> alias, kind |-> kind, key |-> key]

\* isinstance(value, type(self.params_placeholder[key]))
IsInstance(value, key) == value.type = params_placeholder[key].type

\* The loop over stressor_params.items(): an unexpected key, else a datatype
\* that differs from the template's.
ItemWarnings_NoTypeCheck(alias, stressor_params) ==
    LET unexpected == SelectSeq(stressor_params,
                          LAMBDA it : it.key \notin TemplateKeys)
    IN [i \in 1..Len(unexpected) |->
           Warning(alias, "unexpected", unexpected[i].key)]

ItemWarnings(alias, stressor_params) ==
    LET bad == SelectSeq(stressor_params, LAMBDA it :
                   \/ it.key \notin TemplateKeys
                   \/ ~IsInstance(it.value, it.key))
    IN [i \in 1..Len(bad) |->
           Warning(alias,
                   IF bad[i].key \notin TemplateKeys THEN "unexpected"
                   ELSE "datatype",
                   bad[i].key)]

\* The check that all parameters are present: made only when the number of
\* keys differs from the template's.
MissingWarnings_AllKeys(alias, stressor_params) ==
    IF Len(stressor_params) # Len(TemplateOrder)
    THEN [i \in 1..Len(TemplateOrder) |->
             Warning(alias, "missing", TemplateOrder[i])]
    ELSE <<>>

MissingWarnings(alias, stressor_params) ==
    LET missing == SelectSeq(TemplateOrder,
                       LAMBDA k : k \notin ItemKeys(stressor_params))
    IN IF Len(stressor_params) # Len(TemplateOrder)
       THEN [i \in 1..Len(missing) |-> Warning(alias, "missing", missing[i])]
       ELSE <<>>

StressorWarnings(alias, stressor_params) ==
    ItemWarnings(alias, stressor_params) \o MissingWarnings(alias, stressor_params)

\* The loop over the registry from stressor i on, with the warnings emitted so
\* far: error_flag is tested at the end of each stressor's iteration, so the
\* ValueError leaves the loop at the first stressor that has a violation.
RECURSIVE ValidateFrom(_, _, _, _)
ValidateFrom(reg, validation_config, i, warned) ==
    IF i > Len(reg) THEN [warnings |-> warned, raised |-> FALSE]
    ELSE LET w == StressorWarnings(reg[i],
                      find_stressor_params(validation_config, reg[i]))
         IN IF w # <<>>
            THEN [warnings |-> warned \o w, raised |-> TRUE]
            ELSE ValidateFrom(reg, validation_config, i + 1, warned)

validate_impedance_config(reg, validation_config) ==
    ValidateFrom(reg, validation_config, 1, <<>>)

----------------------------------------------------------------------------
(* Impedance_processor, as calculate_impedance uses it *)

\* The constructor keeps what it is given; ds is the opened raster, or None.
Impedance_processor(acc, config, yaml_stressor, opened) ==
    [none |-> FALSE, yaml_stressor |-> yaml_stressor, ds |-> opened,
     max_result |-> acc, config_impedance |-> config]

Max(a, b) == IF a >= b THEN a ELSE b

\* calculate_edge_effect: the cell-wise maximum of the prior accumulator and the
\* stressor's effect raster; the first stressor initializes the accumulator.
calculate_edge_effect(prior, effect) ==
    IF prior = NoRaster THEN effect
    ELSE [c \in Cells |-> Max(prior[c], effect[c])]

\* One iteration of the loop of calculate_impedance: the processor built for the
\* stressor and the accumulator the iteration leaves.
LoopBody_ResetOnSkip(acc, config, yaml_stressor, opened, effect) ==
    LET built == Impedance_processor(acc, config, yaml_stressor, opened)
    IN IF ~opened
       THEN [impedance_processor |-> built, max_result |-> NoRaster]
       ELSE LET new == calculate_edge_effect(built.max_result, effect)
            IN [impedance_processor |-> [built EXCEPT !.max_result = new],
                max_result |-> new]

LoopBody(acc, config, yaml_stressor, opened, effect) ==
    LET built == Impedance_processor(acc, config, yaml_stressor, opened)
    IN IF ~opened
       THEN [impedance_processor |-> built, max_result |-> acc]
       ELSE LET new == calculate_edge_effect(built.max_result, effect)
            IN [impedance_processor |-> [built EXCEPT !.max_result = new],
                max_result |-> new]

----------------------------------------------------------------------------
(* The year entry of config.yaml, as each wrapper reads it *)

PyInt(n) == [type |-> "int", val |-> n]
PyList(items) == [type |-> "list", val |-> items]

Years == {2018, 2020}

YearConfigs ==
    {PyNone, PyInt(2018), PyList(<<PyInt(2018)>>),
     PyList(<<PyInt(2018), PyInt(2020)>>), PyList(<<PyInt(2020), PyInt(2018)>>)}

\* [int(year) for year in self.years]
IntList(items) == [i \in 1..Len(items) |-> items[i].val]

\* Osm_PreProcessor.__init__
OsmDefaultYear == 2022

OsmYears(cfg) ==
    CASE cfg.type = "NoneType" -> [years |-> <<OsmDefaultYear>>, warned |-> TRUE]
      [] cfg.type = "int" -> [years |-> <<cfg.val>>, warned |-> FALSE]
      [] OTHER -> [years |-> IntList(cfg.val), warned |-> FALSE]

\* lulc_enrichment_wrapper.__init__
EnrichmentDefaultYear == 2018

EnrichmentYears(cfg) ==
    CASE cfg.type = "NoneType" -> [years |-> <<EnrichmentDefaultYear>>,
                                   warned |-> TRUE]
      [] cfg.type = "int" -> [years |-> <<cfg.val>>, warned |-> FALSE]
      [] OTHER -> [years |-> cfg.val, warned |-> FALSE]

\* ImpedanceWrapper.__init__
ImpedanceYears(cfg) ==
    CASE cfg.type = "NoneType" -> [years |-> <<>>, warned |-> TRUE]
      [] cfg.type = "int" -> [years |-> <<cfg.val>>, warned |-> FALSE]
      [] OTHER -> [years |-> IntList(cfg.val), warned |-> FALSE]

----------------------------------------------------------------------------
(* The ImpedanceWrapper run *)

ImpedanceStart(lulc, cfg) ==
    /\ pc = "constructed"
    /\ years = ImpedanceYears(cfg).years
    /\ year_warned = ImpedanceYears(cfg).warned
    /\ impedance_stressors = <<>>
    /\ config_impedance = Config(lulc, NoStressors)
    /\ yaml_file = Config(lulc, NoStressors)
    /\ edits = 0
    /\ warnings = <<>>
    /\ validation = "pending"
    /\ idx = 0
    /\ max_result = NoRaster
    /\ impedance_processor = NoProcessor
    /\ processed = <<>>
    /\ decay_runs = <<>>
    /\ error = "none"

ImpedanceInit ==
    \E lulc \in InitialLulcStates, cfg \in YearConfigs : ImpedanceStart(lulc, cfg)

\* No ImpedanceWrapper run.
ImpedanceIdle == ImpedanceStart("absent", PyInt(2018))

\* process_impedance_config: set up the configuration, let the collaborators
\* register their stressors, save the configuration to the YAML file.
ProcessImpedanceConfig ==
    /\ pc = "constructed"
    /\ IF years = <<>>
       THEN \* self.years[0] of an empty list
            /\ pc' = "raised"
            /\ error' = "IndexError"
            /\ UNCHANGED <<impedance_stressors, config_impedance, yaml_file>>
       ELSE /\ \E from_lulc \in Registries, from_osm \in Registries :
                  /\ Len(from_lulc) + Len(from_osm) <= MaxStressors
                  /\ LET r == process_stressors(
                                  MainConfig,
                                  setup_config_impedance(config_impedance),
                                  Found("lulc", from_lulc), Found("osm", from_osm))
                     IN /\ impedance_stressors' = Keys(r.impedance_stressors)
                        /\ config_impedance' = r.config_impedance
                        /\ yaml_file' = r.config_impedance
            /\ pc' = "processed"
            /\ UNCHANGED error
    /\ UNCHANGED <<bvars, gvars, ovars, mvars, svars, pvars, fvars, tvars, lvars, hvars>>
    /\ UNCHANGED <<years, year_warned>>
    /\ UNCHANGED <<edits, warnings, validation, idx, max_result,
                   impedance_processor, processed, decay_runs>>

\* p with the item (k, v) written at place pos.
InsertAt(p, pos, k, v) ==
    SubSeq(p, 1, pos - 1) \o <<Item(k, v)>> \o SubSeq(p, pos, Len(p))

\* The user edits config_impedance.yaml by hand: a key of one stressor's
\* parameter set is removed, given another value, or written as the first or
\* the last one.
HandEdit ==
    /\ pc = "processed"
    /\ edits < MaxEdits
    /\ \E a \in SeqToSet(impedance_stressors), k \in YamlKeys :
          LET p == yaml_file.stressors[a]
          IN \/ /\ k \in ItemKeys(p)
                /\ yaml_file' = [yaml_file EXCEPT !.stressors[a] =
                                    SelectSeq(p, LAMBDA it : it.key # k)]
             \/ \E v \in YamlValues :
                   IF k \in ItemKeys(p)
                   THEN /\ AsDict(p)[k] # v
                        /\ yaml_file' = [yaml_file EXCEPT !.stressors[a] =
                               [i \in 1..Len(p) |->
                                   IF p[i].key = k THEN Item(k, v) ELSE p[i]]]
                   ELSE \E pos \in {1, Len(p) + 1} :
                           yaml_file' = [yaml_file EXCEPT !.stressors[a] =
                                            InsertAt(p, pos, k, v)]
    /\ edits' = edits + 1
    /\ UNCHANGED <<bvars, gvars, ovars, mvars, svars, pvars, fvars, tvars, lvars, hvars>>
    /\ UNCHANGED <<years, year_warned>>
    /\ UNCHANGED <<pc, impedance_stressors, config_impedance, warnings,
                   validation, idx, max_result, impedance_processor, processed,
                   decay_runs, error>>

\* validate_impedance_config: the YAML file is loaded into a local and checked
\* against the template; a violation raises ValueError, which ends the run.
ValidateImpedanceConfig ==
    /\ pc = "processed"
    /\ LET validation_config == yaml_file
           r == validate_impedance_config(impedance_stressors, validation_config)
       IN /\ warnings' = r.warnings
          /\ validation' = IF r.raised THEN "failed" ELSE "passed"
          /\ error' = IF r.raised THEN "ValueError" ELSE "none"
          /\ pc' = IF r.raised THEN "aborted" ELSE "validated"
    /\ UNCHANGED <<bvars, gvars, ovars, mvars, svars, pvars, fvars, tvars, lvars, hvars>>
    /\ UNCHANGED <<years, year_warned>>
    /\ UNCHANGED <<impedance_stressors, config_impedance, yaml_file, edits, idx,
                   max_result, impedance_processor, processed, decay_runs>>

\* calculate_impedance, its locals initialised.
CalcBegin ==
    /\ pc = "validated"
    /\ pc' = "calculating"
    /\ idx' = 0
    /\ max_result' = NoRaster
    /\ impedance_processor' = NoProcessor
    /\ UNCHANGED <<bvars, gvars, ovars, mvars, svars, pvars, fvars, tvars, lvars, hvars>>
    /\ UNCHANGED <<years, year_warned>>
    /\ UNCHANGED <<impedance_stressors, config_impedance, yaml_file, edits,
                   warnings, validation, processed, decay_runs, error>>

\* calculate_impedance, one iteration: a processor is built for the next
\* stressor of the registry; a raster that fails to open is skipped.
CalcStressor(effects) ==
    /\ pc = "calculating"
    /\ idx < Len(impedance_stressors)
    /\ \E opened \in BOOLEAN, effect \in effects :
          /\ ~opened => effect = ZeroRaster
          /\ LET a == impedance_stressors[idx + 1]
                 r == LoopBody(max_result, config_impedance, a, opened, effect)
             IN /\ impedance_processor' = r.impedance_processor
                /\ max_result' = r.max_result
                /\ processed' = Append(processed,
                       [yaml_stressor |-> a, opened |-> opened, effect |-> effect,
                        config_impedance |-> config_impedance])
    /\ idx' = idx + 1
    /\ UNCHANGED <<bvars, gvars, ovars, mvars, svars, pvars, fvars, tvars, lvars, hvars>>
    /\ UNCHANGED <<years, year_warned>>
    /\ UNCHANGED <<pc, impedance_stressors, config_impedance, yaml_file, edits,
                   warnings, validation, decay_runs, error>>

\* calculate_impedance, after the loop: update_impedance_with_decay is called on
\* the local impedance_processor, which is still None when the registry is empty.
CalcFinish ==
    /\ pc = "calculating"
    /\ idx = Len(impedance_stressors)
    /\ IF impedance_processor.none
       THEN /\ error' = "AttributeError"
            /\ pc' = "raised"
            /\ UNCHANGED decay_runs
       ELSE /\ decay_runs' = Append(decay_runs,
                   [max_result |-> impedance_processor.max_result,
                    ds |-> impedance_processor.ds, after |-> idx])
            /\ pc' = "done"
            /\ UNCHANGED error
    /\ UNCHANGED <<bvars, gvars, ovars, mvars, svars, pvars, fvars, tvars, lvars, hvars>>
    /\ UNCHANGED <<years, year_warned>>
    /\ UNCHANGED <<impedance_stressors, config_impedance, yaml_file, edits,
                   warnings, validation, idx, max_result, impedance_processor,
                   processed>>

----------------------------------------------------------------------------
(* vector_preprocessor.buffer_features *)

Layers == {"roads", "railways"}

\* EPSG codes of the LULC raster: geographic (4326) and projected (3035).
CrsCodes == {4326, 3035}

\* Whether the CRS of an EPSG code is projected (cartesian), the fact
\* RasterTransform.check_cart_crs is to report.
Projected(code) == code # 4326

\* buffer_features' default for epsg, the temporary projection.
DefaultEpsg == 27700

\* Python's True and False.
PyBool(b) == [type |-> "bool", val |-> IF b THEN 1 ELSE 0]

\* Python's == between two values: bool and int compare as numbers (0 == False
\* and 1 == True), a str or None equals only a value of its own type.
PyEq(x, y) ==
    IF x.type \in {"bool", "int"} /\ y.type \in {"bool", "int"}
    THEN x.val = y.val
    ELSE x.type = y.type /\ x.val = y.val

\* The values the constructor's argument lulc_is_cartesian is given: it is
\* annotated bool, RasterMetadata.is_cartesian is annotated str, and the
\* constructor stores whatever it receives.
Flags ==
    {PyBool(TRUE), PyBool(FALSE),
     PyInt(1), PyInt(0),
     PyStr("True"), PyStr("False"), PyNone}

\* SQL values of the "width" column: NULL, text, or a number.
Chars == {"6", "m"}
Digits == {"6"}
DigitValue(c) == 6
SqlNullWidth == [kind |-> "null", text |-> <<>>, num |-> 0]
SqlText(t) == [kind |-> "text", text |-> t, num |-> 0]
SqlReal(n) == [kind |-> "real", text |-> <<>>, num |-> n]
Widths ==
    {SqlNullWidth, SqlReal(7)}
    \cup {SqlText(t) : t \in UNION {[1..n -> Chars] : n \in 0..MaxWidthLen}}

\* Values of the "highway" column; NoHighway is NULL (the tag is missing).
NoHighway == "<null>"
Highways ==
    {NoHighway, "motorway", "motorway_link", "trunk", "trunk_link", "primary",
     "primary_link", "secondary", "secondary_link", "residential"}

Rows == [width : Widths, highway : Highways]

\* The features a layer can hold: railways carry no highway tag.
LayerRows(layer) ==
    IF layer = "roads" THEN Rows ELSE {r \in Rows : r.highway = NoHighway}

\* A rational number.
Rat(n, d) == [num |-> n, den |-> d]
RatEq(a, b) == a.num * b.den = b.num * a.den

\* The number the longest prefix of digits reads as; 0 when there is none.
RECURSIVE PrefixValue(_, _)
PrefixValue(t, acc) ==
    IF t = <<>> \/ Head(t) \notin Digits THEN acc
    ELSE PrefixValue(Tail(t), 10 * acc + DigitValue(Head(t)))

\* SQLite's CAST(x AS REAL): NULL for NULL, the number for a number, and for
\* text the number its longest numeric prefix reads as, 0.0 without one.
CastAsReal(w) ==
    CASE w.kind = "null" -> [null |-> TRUE, num |-> 0]
      [] w.kind = "real" -> [null |-> FALSE, num |-> w.num]
      [] w.kind = "text" -> [null |-> FALSE, num |-> PrefixValue(w.text, 0)]

\* The CASE expression of buffer_features: the buffer distance of a row.
subquery(row) ==
    IF row.width.kind = "null" \/ CastAsReal(row.width).null
    THEN CASE row.highway \in {"motorway", "motorway_link", "trunk", "trunk_link"}
                -> Rat(30 \div 2, 1)
           [] row.highway \in {"primary", "primary_link", "secondary",
                               "secondary_link"}
                -> Rat(20 \div 2, 1)
           [] OTHER -> Rat(10 \div 2, 1)
    ELSE Rat(CastAsReal(row.width).num, 2)

\* self.is_cartesian == False
IsNotCartesian(flag) == PyEq(flag, PyBool(FALSE))

\* The SELECT expression: the CRS the buffer is computed in and the CRS of the
\* geometry written, for geometries stored in self.crs.
query(flag, code, epsg, row) ==
    IF IsNotCartesian(flag)
    THEN [width |-> row.width, highway |-> row.highway,
          distance |-> subquery(row), buffer_crs |-> epsg, geometry_crs |-> code]
    ELSE [width |-> row.width, highway |-> row.highway,
          distance |-> subquery(row), buffer_crs |-> code, geometry_crs |-> code]

NoRow ==
    [width |-> SqlNullWidth, highway |-> NoHighway, distance |-> Rat(0, 1),
     buffer_crs |-> 0, geometry_crs |-> 0]

\* A buffered GeoPackage: absent, left by an earlier run, or written by this one.
Absent == [status |-> "absent", row |-> NoRow]
Stale == [status |-> "stale", row |-> NoRow]
Fresh(r) == [status |-> "fresh", row |-> r]

\* What subprocess.run of ogr2ogr does: it returns, exits non-zero, or fails
\* otherwise (the binary is missing, say).
Outcomes == {"ok", "CalledProcessError", "Exception"}

\* What os.remove of an existing output does.
RemoveOutcomes == {"removed", "OSError"}

\* The except clauses around subprocess.run.
Caught_OnlyCalledProcessError(outcome) == outcome = "CalledProcessError"

Caught(outcome) == outcome \in {"CalledProcessError", "Exception"}

\* An exception left buffer_features: the caller's sequence of calls is over.
BufferAborted == \E i \in 1..Len(buffer_log) : buffer_log[i].propagated

BufferIdle ==
    /\ crs = 3035
    /\ is_cartesian = PyBool(TRUE)
    /\ vector_refine = [l \in Layers |-> [width |-> SqlNullWidth,
                                           highway |-> NoHighway]]
    /\ out_files = [l \in Layers |-> Absent]
    /\ buffer_log = <<>>

\* vector_preprocessor.__init__: lulc_crs and lulc_is_cartesian are stored as
\* they are given, neither checked against the other.
BufferInit ==
    /\ crs \in CrsCodes
    /\ is_cartesian \in Flags
    /\ vector_refine \in {f \in [Layers -> Rows] :
                            \A l \in Layers : f[l] \in LayerRows(l)}
    /\ out_files \in [Layers -> {Absent, Stale}]
    /\ buffer_log = <<>>

\* The try block of buffer_features: ogr2ogr writes the buffered layer, or
\* fails and leaves no output.
RunOgr2ogr(layer, outcome) ==
    /\ out_files' = [out_files EXCEPT ![layer] =
           IF outcome = "ok"
           THEN Fresh(query(is_cartesian, crs, DefaultEpsg, vector_refine[layer]))
           ELSE Absent]
    /\ buffer_log' = Append(buffer_log,
           [layer |-> layer, outcome |-> outcome,
            propagated |-> outcome # "ok" /\ ~Caught(outcome)])

\* buffer_features(layer, output_filepath): an existing output is removed, then
\* ogr2ogr runs inside the try.
BufferFeatures ==
    /\ Len(buffer_log) < MaxCalls
    /\ ~BufferAborted
    /\ \E layer \in Layers :
          \/ /\ out_files[layer] # Absent
             /\ \E rm \in RemoveOutcomes :
                   IF rm = "OSError"
                   THEN /\ buffer_log' = Append(buffer_log,
                               [layer |-> layer, outcome |-> "OSError",
                                propagated |-> TRUE])
                        /\ UNCHANGED out_files
                   ELSE \E outcome \in Outcomes : RunOgr2ogr(layer, outcome)
          \/ /\ out_files[layer] = Absent
             /\ \E outcome \in Outcomes : RunOgr2ogr(layer, outcome)
    /\ UNCHANGED <<crs, is_cartesian, vector_refine>>
    /\ UNCHANGED <<ivars, gvars, ovars, mvars, svars, pvars, fvars, tvars, lvars, hvars>>

----------------------------------------------------------------------------
(* osm_geojson_to_gpkg.fix_geometries_in_gpkg *)

\* None, as feature.GetGeometryRef() returns it for a feature without geometry
\* and geometry.MakeValid() for a geometry it fails on.
NullGeometry == "None"

\* What feature.GetGeometryRef() returns, as IsValid and MakeValid see it.
Geometries ==
    {"valid", "invalid_fixable", "invalid_unfixable", "invalid_failing",
     NullGeometry}

\* geometry.IsValid() of a geometry object.
IsValid(g) == g \in {"valid", "made_valid"}

\* geometry.MakeValid() of a geometry object: a valid geometry, a geometry that
\* is still invalid, or None on failure.
MakeValid(g) ==
    CASE g = "invalid_fixable" -> "made_valid"
      [] g = "invalid_unfixable" -> "still_invalid"
      [] g = "invalid_failing" -> NullGeometry
      [] OTHER -> g

BoundedSeqs(S, n) == UNION {[1..k -> S] : k \in 0..n}

GpkgLayers == BoundedSeqs(Geometries, MaxFeatures)
Gpkgs == BoundedSeqs(GpkgLayers, MaxLayers)

\* The counters before the first layer is entered: unbound names.
Unbound ==
    [bound |-> FALSE, layer_name |-> 0, feature_to_fix_count |-> 0,
     fixed_feature_count |-> 0, invalid_feature_count |-> 0]

ZeroCounts(name) == [Unbound EXCEPT !.bound = TRUE, !.layer_name = name]

\* The body of the loop over the features of a layer. IsValid is called on
\* what GetGeometryRef and MakeValid returned: on None the attribute lookup
\* raises AttributeError, in the second case after feature_to_fix_count was
\* incremented.
FixFeature(g, c) ==
    IF g = NullGeometry
    THEN [geometry |-> g, counts |-> c, raised |-> "AttributeError"]
    ELSE IF ~IsValid(g)
    THEN LET fixed_geometry == MakeValid(g)
             counted == [c EXCEPT !.feature_to_fix_count = @ + 1]
         IN IF fixed_geometry = NullGeometry
            THEN [geometry |-> g, counts |-> counted,
                  raised |-> "AttributeError"]
            ELSE IF IsValid(fixed_geometry)
            THEN [geometry |-> fixed_geometry,
                  counts |-> [counted EXCEPT !.fixed_feature_count = @ + 1],
                  raised |-> "none"]
            ELSE [geometry |-> g,
                  counts |-> [counted EXCEPT !.invalid_feature_count = @ + 1],
                  raised |-> "none"]
    ELSE [geometry |-> g, counts |-> c, raised |-> "none"]

\* The loop over the features of a layer, from feature i on; an exception
\* leaves the loop with the features and counters as they stand.
RECURSIVE FixLayer(_, _, _)
FixLayer(layer, i, c) ==
    IF i > Len(layer)
    THEN [layer |-> layer, counts |-> c, raised |-> "none"]
    ELSE LET r == FixFeature(layer[i], c)
         IN IF r.raised # "none"
            THEN [layer |-> layer, counts |-> r.counts, raised |-> r.raised]
            ELSE FixLayer([layer EXCEPT ![i] = r.geometry], i + 1, r.counts)

\* The report printed after the loops, from the counters as they stand.
Report(c) ==
    [layer_name |-> c.layer_name,
     all_valid |-> c.feature_to_fix_count = 0,
     fixed |-> c.fixed_feature_count,
     unfixable |-> c.invalid_feature_count]

\* A GeoPackage file: missing, or holding layers.
Missing == [exists |-> FALSE, layers |-> <<>>]
OnDisk(layers) == [exists |-> TRUE, layers |-> layers]

\* The fixed_gpkg argument: None, or a path other than input_gpkg.
FixedGpkgs == {PyNone, PyStr("fixed.gpkg")}

\* shutil.copyfile(fixed_gpkg, input_gpkg) and os.remove(fixed_gpkg) at the end
\* of the function: copying a file onto itself is refused.
OverwriteOriginal(fixed, original, copy) ==
    IF fixed = PyNone
    THEN [raised |-> "SameFileError", input_file |-> original, fixed_file |-> copy]
    ELSE [raised |-> "none", input_file |-> copy, fixed_file |-> Missing]

\* Osm_Wrapper.merge_gpkg_files hands over osm_merged_{year}_fixed.gpkg and
\* overwrite_original=False.
WrapperFixedGpkg == PyStr("fixed.gpkg")

\* The elements of s at the positions of keep, in their order.
Pick(s, keep) ==
    LET picked[i \in 0..Len(s)] ==
            IF i = 0 THEN <<>>
            ELSE IF i \in keep THEN Append(picked[i - 1], s[i])
            ELSE picked[i - 1]
    IN picked[Len(s)]

\* A call of Osm_Wrapper.merge_gpkg_files: gpkg_temp holds the converted
\* per-layer GeoPackages and no merged file yet.
MergeStart(files) ==
    /\ fixed_gpkg = WrapperFixedGpkg
    /\ overwrite_original = FALSE
    /\ input_file = Missing
    /\ fixed_file = Missing
    /\ gpkg_in = <<>>
    /\ gpkg = <<>>
    /\ layer_idx = 0
    /\ counts = Unbound
    /\ layer_counts = <<>>
    /\ reports = <<>>
    /\ repair_pc = "merge"
    /\ repair_caller = "Osm_Wrapper"
    /\ temp_files = files
    /\ vector_file = Missing

RepairStart(g, fixed, overwrite) ==
    /\ repair_caller = "direct"
    /\ temp_files = <<>>
    /\ vector_file = Missing
    /\ fixed_gpkg = fixed
    /\ overwrite_original = overwrite
    /\ input_file = OnDisk(g)
    /\ fixed_file = Missing
    /\ gpkg_in = g
    /\ gpkg = g
    /\ layer_idx = 0
    /\ counts = Unbound
    /\ layer_counts = <<>>
    /\ reports = <<>>
    /\ repair_pc = "start"

RepairIdle == RepairStart(<<>>, PyNone, FALSE)

\* OsmGeojson_to_gpkg.merge_gpkg_files: the first GeoPackage initialises the
\* merged file (check=True, not caught), every further one is appended as a
\* layer unless its ogr2ogr run fails, which is caught and printed.
MergeGpkgFiles ==
    /\ repair_pc = "merge"
    /\ IF Len(temp_files) = 0
       THEN /\ repair_pc' = "IndexError"
            /\ UNCHANGED <<gpkg_in, gpkg, input_file>>
       ELSE \E first_ok \in BOOLEAN, appended \in SUBSET (2..Len(temp_files)) :
               IF first_ok
               THEN LET merged == Pick(temp_files, {1} \cup appended)
                    IN /\ input_file' = OnDisk(merged)
                       /\ gpkg_in' = merged
                       /\ gpkg' = merged
                       /\ repair_pc' = "start"
               ELSE /\ appended = {}
                    /\ repair_pc' = "CalledProcessError"
                    /\ UNCHANGED <<gpkg_in, gpkg, input_file>>
    /\ UNCHANGED <<layer_idx, counts, layer_counts, reports, fixed_gpkg,
                   overwrite_original, fixed_file, repair_caller, temp_files,
                   vector_file>>
    /\ UNCHANGED <<ivars, bvars, ovars, mvars, svars, pvars, fvars, tvars, lvars, hvars>>

\* The data source is opened on input_gpkg itself or on a copy of it.
FixOpen ==
    /\ repair_pc = "start"
    /\ fixed_file' = IF fixed_gpkg = PyNone THEN fixed_file ELSE input_file
    /\ repair_pc' = "layers"
    /\ UNCHANGED <<gpkg_in, gpkg, layer_idx, counts, layer_counts, reports,
                   fixed_gpkg, overwrite_original, input_file, repair_caller,
                   temp_files, vector_file>>
    /\ UNCHANGED <<ivars, bvars, ovars, mvars, svars, pvars, fvars, tvars, lvars, hvars>>

\* One iteration of the loop over the layers: the counters are reset and the
\* layer's features are repaired in place. An AttributeError raised in the loop
\* over the features is not caught and ends the call.
FixLayerStep ==
    /\ repair_pc = "layers"
    /\ layer_idx < Len(gpkg)
    /\ LET i == layer_idx + 1
           r == FixLayer(gpkg[i], 1, ZeroCounts(i))
       IN /\ gpkg' = [gpkg EXCEPT ![i] = r.layer]
          /\ counts' = r.counts
          /\ layer_counts' = Append(layer_counts, r.counts)
          /\ layer_idx' = i
          /\ repair_pc' = IF r.raised = "none" THEN repair_pc ELSE r.raised
          /\ IF fixed_gpkg = PyNone
             THEN input_file' = OnDisk(gpkg') /\ UNCHANGED fixed_file
             ELSE fixed_file' = OnDisk(gpkg') /\ UNCHANGED input_file
    /\ UNCHANGED <<gpkg_in, reports, fixed_gpkg, overwrite_original,
                   repair_caller, temp_files, vector_file>>
    /\ UNCHANGED <<ivars, bvars, ovars, mvars, svars, pvars, fvars, tvars, lvars, hvars>>

\* After the loop over the layers: the report is printed from the counters,
\* which are unbound when no layer was iterated.
FixReport ==
    /\ repair_pc = "layers"
    /\ layer_idx = Len(gpkg)
    /\ IF counts.bound
       THEN /\ reports' = Append(reports, Report(counts))
            /\ IF overwrite_original
               THEN LET r == OverwriteOriginal(fixed_gpkg, input_file, fixed_file)
                    IN /\ input_file' = r.input_file
                       /\ fixed_file' = r.fixed_file
                       /\ repair_pc' = IF r.raised = "none" THEN "done"
                                       ELSE r.raised
               ELSE /\ repair_pc' = "done"
                    /\ UNCHANGED <<input_file, fixed_file>>
       ELSE /\ repair_pc' = "UnboundLocalError"
            /\ UNCHANGED <<reports, input_file, fixed_file>>
    /\ UNCHANGED <<gpkg_in, gpkg, layer_idx, counts, layer_counts, fixed_gpkg,
                   overwrite_original, repair_caller, temp_files, vector_file>>
    /\ UNCHANGED <<ivars, bvars, ovars, mvars, svars, pvars, fvars, tvars, lvars, hvars>>

\* The end of Osm_Wrapper.merge_gpkg_files after the repair returned:
\* delete_temp_files removes every .geojson of the input directory and every
\* file of gpkg_temp whose name does not start with osm_merged, then
\* shutil.move takes the fixed GeoPackage to the vector directory.
DeleteTempFilesAndMove ==
    /\ repair_caller = "Osm_Wrapper"
    /\ repair_pc = "done"
    /\ osm_files' = [f \in DOMAIN osm_files |->
          IF f.kind \in {"geojson", "filtered"} THEN "absent" ELSE osm_files[f]]
    /\ temp_files' = <<>>
    /\ vector_file' = fixed_file
    /\ fixed_file' = Missing
    /\ repair_pc' = "moved"
    /\ UNCHANGED <<gpkg_in, gpkg, layer_idx, counts, layer_counts, reports,
                   fixed_gpkg, overwrite_original, input_file, repair_caller>>
    /\ UNCHANGED <<osm_config_year, osm_years, osm_warned, osm_year, osm_touched,
                   osm_pc, osm_returned>>
    /\ UNCHANGED <<ivars, bvars, mvars, svars, pvars, fvars, tvars, lvars, hvars>>

----------------------------------------------------------------------------
(* Osm_Wrapper.get_osm_data over Osm_PreProcessor *)

\* The queries of overpass_query_builder.
Themes == {"roads", "railways", "waterways", "waterbodies"}

FileKinds == {"json", "geojson", "filtered"}

OsmFileYears == Years \cup {OsmDefaultYear}

OsmFile(theme, year, kind) == [theme |-> theme, year |-> year, kind |-> kind]

OsmFiles == [theme : Themes, year : OsmFileYears, kind : FileKinds]

Touch(stage, ys) == {[stage |-> stage, year |-> y] : y \in ys}

\* convert_to_geojson: for year in self.years.
ConvertedYears(ys) == SeqToSet(ys)

\* geojson_files: the _filtered path of every query whose GeoJSON exists and is
\* not empty (overwrite_original is False).
GeojsonFiles(files, year) ==
    {OsmFile(t, year, "filtered") :
        t \in {q \in Themes : files[OsmFile(q, year, "geojson")] = "data"}}

NotReturned == [type |-> "pending", val |-> {}]

\* The year written into the module-level calls that follow the class.
ModuleLevelYear == 2018

\* The files after convert_to_geojson: osmtogeojson's output is written for
\* every year of ys and every query, empty where the JSON file is missing.
convert_to_geojson(files, ys) ==
    [f \in DOMAIN files |->
        IF f.kind = "geojson" /\ f.year \in ConvertedYears(ys)
        THEN IF files[OsmFile(f.theme, f.year, "json")] = "data"
             THEN "data" ELSE "empty"
        ELSE files[f]]

\* The files after fix_invalid_geometries(queries, year, False): every
\* non-empty GeoJSON of the year gets its filtered file.
FilteredFiles(files, year) ==
    [f \in DOMAIN files |->
        IF /\ f.kind = "filtered"
           /\ f.year = year
           /\ files[OsmFile(f.theme, f.year, "geojson")] = "data"
        THEN "data" ELSE files[f]]

\* The function body ends after the loop: geojson_files is not handed back.
FixInvalidGeometriesReturn(geojson_files) == PyNone

OsmStart(cfg, year) ==
    /\ osm_config_year = cfg
    /\ osm_years = OsmYears(cfg).years
    /\ osm_warned = OsmYears(cfg).warned
    /\ osm_year = year
    /\ osm_files = [f \in OsmFiles |-> "absent"]
    /\ osm_touched = {}
    /\ osm_pc = "import"
    /\ osm_returned = NotReturned

OsmIdle == OsmStart(PyInt(2018), 2018)

\* Importing osm_preprocessor, as osm_wrapper does: the statements after the
\* class build an Osm_PreProcessor, convert the JSON files of every configured
\* year and filter the GeoJSON files of 2018; nothing is fetched.
ImportOsmPreprocessor ==
    /\ osm_pc = "import"
    /\ osm_files' = FilteredFiles(convert_to_geojson(osm_files, osm_years),
                                  ModuleLevelYear)
    /\ osm_touched' = osm_touched \cup Touch("raster", {osm_years[1]})
                         \cup Touch("convert", ConvertedYears(osm_years))
                         \cup Touch("filter", {ModuleLevelYear})
    /\ osm_pc' = "start"
    /\ UNCHANGED <<osm_config_year, osm_years, osm_warned, osm_year, osm_returned>>
    /\ UNCHANGED <<ivars, bvars, gvars, mvars, svars, pvars, fvars, tvars, lvars, hvars>>

\* Osm_PreProcessor.__init__: the raster of the first year gives the bounding box.
OsmConstruct ==
    /\ osm_pc = "start"
    /\ osm_touched' = osm_touched \cup Touch("raster", {osm_years[1]})
    /\ osm_pc' = "constructed"
    /\ UNCHANGED <<osm_config_year, osm_years, osm_warned, osm_year, osm_files, osm_returned>>
    /\ UNCHANGED <<ivars, bvars, gvars, mvars, svars, pvars, fvars, tvars, lvars, hvars>>

\* fetch_osm_data(queries, year=self.year): a response with status 200 is saved.
FetchOsmData ==
    /\ osm_pc = "constructed"
    /\ \E ok \in SUBSET Themes :
          osm_files' = [f \in OsmFiles |->
              IF f.kind = "json" /\ f.year = osm_year /\ f.theme \in ok
              THEN "data" ELSE osm_files[f]]
    /\ osm_touched' = osm_touched \cup Touch("fetch", {osm_year})
    /\ osm_pc' = "fetched"
    /\ UNCHANGED <<osm_config_year, osm_years, osm_warned, osm_year, osm_returned>>
    /\ UNCHANGED <<ivars, bvars, gvars, mvars, svars, pvars, fvars, tvars, lvars, hvars>>

\* convert_to_geojson(queries): osmtogeojson's output is written for every
\* year and query, empty where the JSON file is missing.
ConvertToGeojson ==
    /\ osm_pc = "fetched"
    /\ osm_files' = convert_to_geojson(osm_files, osm_years)
    /\ osm_touched' = osm_touched \cup Touch("convert", ConvertedYears(osm_years))
    /\ osm_pc' = "converted"
    /\ UNCHANGED <<osm_config_year, osm_years, osm_warned, osm_year, osm_returned>>
    /\ UNCHANGED <<ivars, bvars, gvars, mvars, svars, pvars, fvars, tvars, lvars, hvars>>

\* fix_invalid_geometries(queries, self.year, False): every non-empty GeoJSON
\* of the year gets its filtered file.
FixInvalidGeometries ==
    /\ osm_pc = "converted"
    /\ osm_files' = FilteredFiles(osm_files, osm_year)
    /\ osm_touched' = osm_touched \cup Touch("filter", {osm_year})
    /\ osm_pc' = "filtered"
    /\ osm_returned' = FixInvalidGeometriesReturn(GeojsonFiles(osm_files, osm_year))
    /\ UNCHANGED <<osm_config_year, osm_years, osm_warned, osm_year>>
    /\ UNCHANGED <<ivars, bvars, gvars, mvars, svars, pvars, fvars, tvars, lvars, hvars>>

----------------------------------------------------------------------------
(* LulcPreprocessor.lulc_mapping *)

\* str.lower, on the letters the entry is written with.
LowerChar(ch) ==
    CASE ch = "T" -> "t" [] ch = "R" -> "r" [] ch = "U" -> "u" [] ch = "E" -> "e"
      [] ch = "F" -> "f" [] ch = "A" -> "a" [] ch = "L" -> "l" [] ch = "S" -> "s"
      [] OTHER -> ch

Lower(str) == [i \in 1..Len(str) |-> LowerChar(str[i])]

TrueText == <<"t", "r", "u", "e">>
FalseText == <<"f", "a", "l", "s", "e">>

\* What config.get('user_matching') can give: nothing (absent or null), a
\* YAML boolean, or a string.
UserMatchings ==
    {PyNone, PyBool(TRUE), PyBool(FALSE),
     PyStr(TrueText), PyStr(<<"T", "r", "u", "e">>), PyStr(<<"T", "R", "U", "E">>),
     PyStr(FalseText), PyStr(<<"F", "a", "l", "s", "e">>),
     PyStr(<<"y", "e", "s">>), PyStr(<<>>)}

\* Mappings from OSM feature to LULC code.
LulcCodeMaps == {<<>>, <<"urban">>, <<"urban", "water">>}

NoMapping == <<"<none>">>

Returned(m) == [raised |-> "none", mapping |-> m]
Raised(e) == [raised |-> e, mapping |-> NoMapping]

\* user_matching.lower() needs a string.
HasLower(v) == v.type = "str"

lulc_mapping(v, codes, matched) ==
    IF ~HasLower(v) THEN Raised("AttributeError")
    ELSE IF Lower(v.val) = TrueText THEN Returned(codes)
    ELSE IF Lower(v.val) = FalseText THEN Returned(matched)
    ELSE Raised("ValueError")

MappingStart(v, codes, matched) ==
    /\ user_matching = v
    /\ lulc_codes = codes
    /\ text_codes = matched
    /\ mapping_result = Raised("pending")

MappingIdle == MappingStart(PyStr(TrueText), <<>>, <<>>)

LulcMapping ==
    /\ mapping_result = Raised("pending")
    /\ mapping_result' = lulc_mapping(user_matching, lulc_codes, text_codes)
    /\ UNCHANGED <<user_matching, lulc_codes, text_codes>>
    /\ UNCHANGED <<ivars, bvars, gvars, ovars, svars, pvars, fvars, tvars, lvars, hvars>>

----------------------------------------------------------------------------
(* Impedance_config_processor.process_stressors on its own *)

NoResult == [impedance_stressors |-> <<>>, config_impedance |-> Config("pending", NoStressors)]

StressorsStart(from_lulc, from_osm) ==
    /\ lulc_found = Found("lulc", from_lulc)
    /\ osm_found = Found("osm", from_osm)
    /\ stressors_result = NoResult
    /\ collaborators = <<>>

StressorsIdle == StressorsStart(<<>>, <<>>)

ProcessStressors ==
    /\ stressors_result = NoResult
    /\ LET r == process_stressors(MainConfig, Config("false", NoStressors),
                                  lulc_found, osm_found)
       IN /\ stressors_result' =
                [impedance_stressors |-> r.impedance_stressors,
                 config_impedance |-> r.config_impedance]
          /\ collaborators' = r.collaborators
    /\ UNCHANGED <<lulc_found, osm_found>>
    /\ UNCHANGED <<ivars, bvars, gvars, ovars, mvars, pvars, fvars, tvars, lvars, hvars>>

----------------------------------------------------------------------------
(* Rasterizer_Processor: filter_pa_by_year and rasterize_pas_by_year *)

\* A value of the 'year' column: a date, by year and day of the year.
Date(y, d) == [year |-> y, day |-> d]

DaysOfYear == {1, 180}

Dates == {Date(y, d) : y \in Years, d \in DaysOfYear}

\* np.datetime64(str(year_stamp)): the first instant of the year.
datetime64(year_stamp) == Date(year_stamp, 1)

DateLeq(a, b) == a.year < b.year \/ (a.year = b.year /\ a.day <= b.day)

\* self.gdf['year'] <= np.datetime64(str(year_stamp))
InSlice(date, year_stamp) == DateLeq(date, datetime64(year_stamp))

\* subset = self.gdf[...]: the rows of the areas kept.
Subset(gdf, year_stamp) ==
    {i \in 1..Len(gdf) : InSlice(gdf[i], year_stamp)}

NoFile == [exists |-> FALSE, areas |-> {}]
Gpkg(areas) == [exists |-> TRUE, areas |-> areas]

RasterizeOutcomes == {"ok", "CalledProcessError"}

PaStart(gdf, stamps, keep) ==
    /\ pa_gdf = gdf
    /\ year_stamps = stamps
    /\ keep_gpkg = keep
    /\ pa_slices = [y \in Years |-> NoFile]
    /\ pa_rasters = [y \in Years |-> FALSE]
    /\ pa_todo = <<>>
    /\ raster_log = <<>>
    /\ pa_pc = "constructed"

PaIdle == PaStart(<<>>, <<2018>>, FALSE)

\* filter_pa_by_year: one subset per year stamp, each written to pas_Y.gpkg.
FilterPaByYear ==
    /\ pa_pc = "constructed"
    /\ pa_slices' = [y \in Years |->
          IF y \in SeqToSet(year_stamps) THEN Gpkg(Subset(pa_gdf, y))
          ELSE pa_slices[y]]
    /\ pa_pc' = "filtered"
    /\ UNCHANGED <<pa_gdf, year_stamps, keep_gpkg, pa_rasters, pa_todo, raster_log>>
    /\ UNCHANGED <<ivars, bvars, gvars, ovars, mvars, svars, fvars, tvars, lvars, hvars>>

\* rasterize_pas_by_year, up to the loop: the GeoPackages of the output
\* directory are listed, in the order os.listdir gives them.
RasterizeBegin ==
    /\ pa_pc = "filtered"
    /\ \E order \in DistinctSeqs(Years, Cardinality(Years)) :
          /\ SeqToSet(order) = {y \in Years : pa_slices[y].exists}
          /\ pa_todo' = order
    /\ pa_pc' = "rasterizing"
    /\ UNCHANGED <<pa_gdf, year_stamps, keep_gpkg, pa_slices, pa_rasters, raster_log>>
    /\ UNCHANGED <<ivars, bvars, gvars, ovars, mvars, svars, fvars, tvars, lvars, hvars>>

\* The finally clause: the GeoPackage is removed unless it is to be kept.
Finally_OnlyOnSuccess(slices, y, keep, outcome) ==
    IF keep \/ outcome # "ok" THEN slices ELSE [slices EXCEPT ![y] = NoFile]

Finally(slices, y, keep, outcome) ==
    IF keep THEN slices ELSE [slices EXCEPT ![y] = NoFile]

\* One iteration of the loop: gdal_rasterize runs on a GeoPackage; its non-zero
\* exit is caught and printed.
RasterizeStep ==
    /\ pa_pc = "rasterizing"
    /\ pa_todo # <<>>
    /\ \E outcome \in RasterizeOutcomes :
          LET y == Head(pa_todo)
          IN /\ pa_rasters' = [pa_rasters EXCEPT ![y] = @ \/ outcome = "ok"]
             /\ pa_slices' = Finally(pa_slices, y, keep_gpkg, outcome)
             /\ raster_log' = Append(raster_log, [year |-> y, outcome |-> outcome])
    /\ pa_todo' = Tail(pa_todo)
    /\ UNCHANGED <<pa_gdf, year_stamps, keep_gpkg, pa_pc>>
    /\ UNCHANGED <<ivars, bvars, gvars, ovars, mvars, svars, fvars, tvars, lvars, hvars>>

\* The loop is over: rasterize_pas_by_year returns.
RasterizeReturn ==
    /\ pa_pc = "rasterizing"
    /\ pa_todo = <<>>
    /\ pa_pc' = "returned"
    /\ UNCHANGED <<pa_gdf, year_stamps, keep_gpkg, pa_slices, pa_rasters, pa_todo,
                   raster_log>>
    /\ UNCHANGED <<ivars, bvars, gvars, ovars, mvars, svars, fvars, tvars, lvars, hvars>>

----------------------------------------------------------------------------
(* Osm_PreProcessor.fix_invalid_geometries: the filter of one GeoJSON file *)

GeometryTypes == {"LineString", "MultiLineString", "Polygon", "Point"}

\* The key a feature's level is stored under.
LevelKey == <<"l", "e", "v", "e", "l">>
LevelKeys == {LevelKey, <<"L", "e", "v", "e", "l">>}

\* The level as the GeoJSON encodes it: null, a number, or the text of an OSM tag.
LevelValues == {PyNone, PyInt(0), PyInt(1), PyStr("0")}

\* The properties of a feature: no level, or a level under one of the keys.
NoLevel == [key |-> <<>>, value |-> PyNone]
Properties == {NoLevel} \cup [key : LevelKeys, value : LevelValues]

Features == [gtype : GeometryTypes, properties : Properties]

\* feature['properties'].get('level')
GetLevel(properties) ==
    IF properties.key = LevelKey THEN properties.value ELSE PyNone

\* Python's == between the values at hand: a text never equals a number.
PyEquals(x, y) == x.type = y.type /\ x.val = y.val

\* value in (None, 0)
InNoneOrZero(value) == PyEquals(value, PyNone) \/ PyEquals(value, PyInt(0))

QueryNames == Themes \cup {"buildings"}

\* The condition of the list comprehension chosen by query_name.
Keeps(name, feature) ==
    IF name \in {"roads", "railways", "waterways"}
    THEN /\ feature.gtype \in {"LineString", "MultiLineString"}
         /\ InNoneOrZero(GetLevel(feature.properties))
    ELSE IF name = "waterbodies"
    THEN feature.gtype \in {"Polygon", "MultiPolygon"}
    ELSE TRUE

\* property_key.lower() on the keys of 'properties'.
LowerKeys(feature) ==
    [feature EXCEPT !.properties.key = Lower(@)]

fix_invalid_geometries(name, features) ==
    LET kept == SelectSeq(features, LAMBDA f : Keeps(name, f))
    IN [i \in 1..Len(kept) |-> LowerKeys(kept[i])]

FilterStart(name, features) ==
    /\ query_name = name
    /\ geojson_features = features
    /\ filtered_features = <<>>
    /\ filter_pc = "converted"

FilterIdle == FilterStart("roads", <<>>)

\* The non-empty GeoJSON of the query is read, filtered and written to the
\* _filtered file.
FilterGeojson ==
    /\ filter_pc = "converted"
    /\ filtered_features' = fix_invalid_geometries(query_name, geojson_features)
    /\ filter_pc' = "filtered"
    /\ UNCHANGED <<query_name, geojson_features>>
    /\ UNCHANGED <<ivars, bvars, gvars, ovars, mvars, svars, pvars, tvars, lvars, hvars>>

----------------------------------------------------------------------------
(* ImpedanceWrapper.get_impedance_max_value *)

\* config.get('impedance_tif'): absent, or a file name template.
ImpedanceTifs == {PyNone, PyStr("impedance_{year}.tif")}

Pending == [outcome |-> "pending", dataset |-> PyNone]

\* impedance_tif_template.format(year=self.years[0]): the attribute is looked
\* up before the argument is evaluated.
FormatTemplate(template, ys) ==
    IF template.type # "str" THEN "AttributeError"
    ELSE IF ys = <<>> THEN "IndexError"
    ELSE "formatted"

\* os.path.normpath(os.path.join(...)) gives a string, so the test
\* 'impedance_tif is not None' is true for every path.
PathIsNotNone(formatted) == formatted = "formatted"

\* gdal.Open on the path: the dataset, or for a missing file a RuntimeError
\* (exceptions enabled) or None, which is passed on to get_max_from_tif.
GdalOpen(on_disk, exceptions) ==
    IF on_disk THEN [outcome |-> "returned", dataset |-> PyStr("dataset")]
    ELSE IF exceptions THEN [outcome |-> "RuntimeError", dataset |-> PyNone]
    ELSE [outcome |-> "NoDataset", dataset |-> PyNone]

get_impedance_max_value(template, ys, on_disk, exceptions) ==
    LET formatted == FormatTemplate(template, ys)
    IN IF formatted # "formatted" THEN [outcome |-> formatted, dataset |-> PyNone]
       ELSE IF PathIsNotNone(formatted) THEN GdalOpen(on_disk, exceptions)
       ELSE [outcome |-> "FileNotFoundError", dataset |-> PyNone]

MaxValueStart(template, on_disk, exceptions) ==
    /\ impedance_tif = template
    /\ tif_on_disk = on_disk
    /\ use_exceptions = exceptions
    /\ max_value = Pending

MaxValueIdle == MaxValueStart(PyNone, FALSE, FALSE)

GetImpedanceMaxValue ==
    /\ max_value = Pending
    /\ max_value' = get_impedance_max_value(impedance_tif, years, tif_on_disk,
                                            use_exceptions)
    /\ UNCHANGED <<impedance_tif, tif_on_disk, use_exceptions>>
    /\ UNCHANGED <<ivars, bvars, gvars, ovars, mvars, svars, pvars, fvars, lvars, hvars>>

----------------------------------------------------------------------------
(* protected_areas.update_land_impedance.UpdateLandImpedance *)

\* An impedance read from the CSV: written as an integer or with a decimal
\* point (the value in tenths).
PyFloat(tenths) == [type |-> "float", val |-> tenths]
AsFloat(v) == IF v.type = "int" THEN PyFloat(10 * v.val) ELSE v

Impedances == {PyInt(5), PyFloat(25)}

\* The LULC codes of the pixels; the table lists some of them.
Codes == {0, 1, 2}
TableCodes == {0, 1}
ReclassTables == UNION {[d -> Impedances] : d \in SUBSET TableCodes}

Nodata == 9999
NodataCodes == {-2147483647, -32768, 0}

\* df['impedance'].dtype == 'float64'
HasDecimal(table) == \E code \in DOMAIN table : table[code].type = "float"

\* lulc_impedance_mapper: the table as a dictionary, the no-data codes set to
\* 9999 after it, and the data type it names.
lulc_impedance_mapper(table) ==
    LET has_decimal == HasDecimal(table)
        nodata == IF has_decimal THEN PyFloat(10 * Nodata) ELSE PyInt(Nodata)
    IN [reclass_dict |->
           [code \in DOMAIN table \cup NodataCodes |->
               IF code \in NodataCodes THEN nodata
               ELSE IF has_decimal THEN AsFloat(table[code]) ELSE table[code]],
        has_decimal |-> has_decimal,
        data_type |-> IF has_decimal THEN "Float64" ELSE "Int64"]

\* reclass_dict.get(code)
DictGet(dict, code) == IF code \in DOMAIN dict THEN dict[code] ELSE PyNone

\* An input raster: one gdal.Open can read, with its pixels, or one it cannot.
Unreadable == [readable |-> FALSE, pixels |-> <<>>]
Readable(pixels) == [readable |-> TRUE, pixels |-> pixels]
InputRasters == {Unreadable} \cup {Readable(pixels) : pixels \in [1..NumCells -> Codes]}

\* numpy's not-a-number.
NaN == [type |-> "float", nan |-> TRUE]

\* The conversion of a mapped value to float64: None becomes nan.
ToFloat64(v) == IF v = PyNone THEN NaN ELSE AsFloat(v)

\* np.vectorize(reclass_dict.get)(input_data), as handed to WriteArray: the
\* type of the array is taken from the value of the first pixel. With an
\* integer first the others are converted to int64, which None does not allow;
\* with a float first they are converted to float64; with None first the array
\* holds objects, which WriteArray converts to float64.
Vectorize(mapped) ==
    IF mapped[1].type = "int"
    THEN IF \E j \in 1..Len(mapped) : mapped[j] = PyNone
         THEN [raised |-> "TypeError", output_data |-> mapped]
         ELSE [raised |-> "none", output_data |-> mapped]
    ELSE [raised |-> "none",
          output_data |-> [j \in 1..Len(mapped) |-> ToFloat64(mapped[j])]]

\* reclassify_raster: gdal.Open raises for a raster it cannot read (exceptions
\* are enabled when the module is loaded); otherwise the raster is created as
\* Float32 or Int32 and the pixels are mapped through the dictionary.
reclassify_raster(raster, table) ==
    LET m == lulc_impedance_mapper(table)
        created == IF m.has_decimal THEN "Float32" ELSE "Int32"
        mapped == [j \in 1..Len(raster.pixels) |->
                      DictGet(m.reclass_dict, raster.pixels[j])]
    IN IF ~raster.readable
       THEN [raised |-> "RuntimeError", data_type |-> "none", created |-> "none",
             output_data |-> <<>>]
       ELSE LET v == Vectorize(mapped)
            IN [raised |-> v.raised,
                data_type |-> IF v.raised = "none" THEN m.data_type ELSE "none",
                created |-> created,
                output_data |-> v.output_data]

NoTiff == [exists |-> FALSE, ot |-> "none"]
Tiff(ot) == [exists |-> TRUE, ot |-> ot]

GdalTranslateOutcomes == {"ok", "failed"}

\* The steps of one loop iteration after reclassify_raster returned: the exit
\* status of gdal_translate is not looked at, the reclassified raster is
\* removed and the compressed one renamed to it.
Compress(data_type, translated) ==
    IF translated = "ok"
    THEN [raised |-> "none", impedance |-> Tiff(data_type), compr |-> NoTiff]
    ELSE [raised |-> "FileNotFoundError", impedance |-> NoTiff, compr |-> NoTiff]

LandStart(table, tiffs) ==
    /\ reclass_table = table
    /\ tiff_files = tiffs
    /\ tiff_idx = 0
    /\ land_files = <<>>
    /\ reclassified = <<>>
    /\ land_pc = "loop"

LandIdle == LandStart(<<>>, <<>>)

\* One iteration of the loop over the input rasters.
ReclassifyAndCompress ==
    /\ land_pc = "loop"
    /\ tiff_idx < Len(tiff_files)
    /\ LET r == reclassify_raster(tiff_files[tiff_idx + 1], reclass_table)
       IN /\ reclassified' = Append(reclassified, r)
          /\ IF r.raised # "none"
             THEN /\ land_files' = Append(land_files,
                        [impedance |-> IF r.created = "none" THEN NoTiff
                                       ELSE Tiff(r.created),
                         compr |-> NoTiff])
                  /\ land_pc' = r.raised
             ELSE \E translated \in GdalTranslateOutcomes :
                     LET c == Compress(r.data_type, translated)
                     IN /\ land_files' = Append(land_files,
                               [impedance |-> c.impedance, compr |-> c.compr])
                        /\ land_pc' = IF c.raised = "none" THEN "loop" ELSE c.raised
    /\ tiff_idx' = tiff_idx + 1
    /\ UNCHANGED <<reclass_table, tiff_files>>
    /\ UNCHANGED <<ivars, bvars, gvars, ovars, mvars, svars, pvars, fvars, tvars, hvars>>

----------------------------------------------------------------------------
(* protected_areas.utils.run_shell_command *)

\* What bash does with a file: the return code and whether stderr holds
\* "syntax error".
ExitCodes == {0, 1, 2, 126, 127}
Behaviours == [returncode : ExitCodes, syntax_error : BOOLEAN]

\* A script: with CRLF line ends or not, what bash does with it as long as the
\* carriage returns are in it, and what bash does with it without them. A
\* carriage return may break a compound command, give a command a name or an
\* argument bash does not accept, or change nothing.
Scripts ==
    {script \in [crlf : BOOLEAN, with_cr : Behaviours, without_cr : Behaviours] :
        ~script.crlf => script.with_cr = script.without_cr}

\* Popen(f"bash {path_to_script}").communicate(): the return code and whether
\* stderr holds "syntax error".
RunBash(script) ==
    IF script.crlf THEN script.with_cr ELSE script.without_cr

\* subprocess.run(f"dos2unix {path_to_script}", shell=True): the line ends are
\* converted; its own failure is not looked at.
Dos2unix(script, works) ==
    IF works
    THEN [crlf |-> FALSE, with_cr |-> script.without_cr,
          without_cr |-> script.without_cr]
    ELSE script

ShellStart(script, works) ==
    /\ shell_script = script
    /\ dos2unix_works = works
    /\ shell_depth = 1
    /\ shell_runs = 0
    /\ shell_outcome = "running"

Succeeds == [returncode |-> 0, syntax_error |-> FALSE]

ShellIdle ==
    ShellStart([crlf |-> FALSE, with_cr |-> Succeeds, without_cr |-> Succeeds], TRUE)

\* One activation of run_shell_command: the script is run; after a syntax error
\* it is converted and the function calls itself, which the interpreter allows
\* while the stack is below its recursion limit.
RunShellCommand ==
    /\ shell_outcome = "running"
    /\ shell_runs' = shell_runs + 1
    /\ LET proc == RunBash(shell_script)
       IN IF proc.returncode = 0
          THEN /\ shell_outcome' = "returned"
               /\ UNCHANGED <<shell_script, shell_depth>>
          ELSE IF ~proc.syntax_error
          THEN /\ shell_outcome' = "CalledProcessError"
               /\ UNCHANGED <<shell_script, shell_depth>>
          ELSE /\ shell_script' = Dos2unix(shell_script, dos2unix_works)
               /\ IF shell_depth < RecursionLimit
                  THEN /\ shell_depth' = shell_depth + 1
                       /\ UNCHANGED shell_outcome
                  ELSE /\ shell_outcome' = "RecursionError"
                       /\ UNCHANGED shell_depth
    /\ UNCHANGED dos2unix_works
    /\ UNCHANGED <<ivars, bvars, gvars, ovars, mvars, svars, pvars, fvars, tvars, lvars>>

----------------------------------------------------------------------------
(* Specifications *)

vars == <<ivars, bvars, gvars, ovars, mvars, svars, pvars, fvars, tvars, lvars, hvars>>

\* The run with the hand edits of the YAML file; the effect rasters are all
\* zero, the configuration being what varies.
Init ==
    /\ BufferIdle
    /\ RepairIdle
    /\ OsmIdle
    /\ MappingIdle
    /\ StressorsIdle
    /\ PaIdle
    /\ FilterIdle
    /\ MaxValueIdle
    /\ LandIdle
    /\ ShellIdle
    /\ ImpedanceInit

Next ==
    \/ ProcessImpedanceConfig
    \/ HandEdit
    \/ ValidateImpedanceConfig
    \/ CalcBegin
    \/ CalcStressor({ZeroRaster})
    \/ CalcFinish

Spec == Init /\ [][Next]_vars

\* The run on the configuration as process_impedance_config saved it, over
\* every effect raster.
AccumNext ==
    \/ ProcessImpedanceConfig
    \/ ValidateImpedanceConfig
    \/ CalcBegin
    \/ CalcStressor(Rasters)
    \/ CalcFinish

AccumInit ==
    /\ BufferIdle
    /\ RepairIdle
    /\ OsmIdle
    /\ MappingIdle
    /\ StressorsIdle
    /\ PaIdle
    /\ FilterIdle
    /\ MaxValueIdle
    /\ LandIdle
    /\ ShellIdle
    /\ ImpedanceInit

SpecAccum == AccumInit /\ [][AccumNext]_vars

\* The buffering of the layers of one vector_preprocessor, constructed with a
\* flag of any of the types it is given.
BufferingFlagsInit ==
    /\ ImpedanceIdle
    /\ RepairIdle
    /\ OsmIdle
    /\ MappingIdle
    /\ StressorsIdle
    /\ PaIdle
    /\ FilterIdle
    /\ MaxValueIdle
    /\ LandIdle
    /\ ShellIdle
    /\ BufferInit

\* The buffering of the layers of one vector_preprocessor constructed as the
\* signature annotates, with a bool for lulc_is_cartesian.
BufferingInit ==
    /\ ImpedanceIdle
    /\ RepairIdle
    /\ OsmIdle
    /\ MappingIdle
    /\ StressorsIdle
    /\ PaIdle
    /\ FilterIdle
    /\ MaxValueIdle
    /\ LandIdle
    /\ ShellIdle
    /\ BufferInit
    /\ is_cartesian.type = "bool"

BufferNext == BufferFeatures

SpecBuffer == BufferingInit /\ [][BufferNext]_vars

SpecBufferFlags == BufferingFlagsInit /\ [][BufferNext]_vars

\* The repair of the geometries of one GeoPackage.
RepairingInit ==
    /\ ImpedanceIdle
    /\ BufferIdle
    /\ OsmIdle
    /\ MappingIdle
    /\ StressorsIdle
    /\ PaIdle
    /\ FilterIdle
    /\ MaxValueIdle
    /\ LandIdle
    /\ ShellIdle
    /\ \/ \E g \in Gpkgs, fixed \in FixedGpkgs, overwrite \in BOOLEAN :
             RepairStart(g, fixed, overwrite)
       \/ \E files \in Gpkgs : MergeStart(files)

RepairNext ==
    \/ MergeGpkgFiles
    \/ FixOpen
    \/ FixLayerStep
    \/ FixReport
    \/ DeleteTempFilesAndMove

SpecRepair == RepairingInit /\ [][RepairNext]_vars

\* One run of Osm_Wrapper.get_osm_data.
OsmRunInit ==
    /\ ImpedanceIdle
    /\ BufferIdle
    /\ RepairIdle
    /\ MappingIdle
    /\ StressorsIdle
    /\ PaIdle
    /\ FilterIdle
    /\ MaxValueIdle
    /\ LandIdle
    /\ ShellIdle
    /\ \E cfg \in YearConfigs, year \in Years : OsmStart(cfg, year)

OsmNext ==
    \/ ImportOsmPreprocessor
    \/ OsmConstruct
    \/ FetchOsmData
    \/ ConvertToGeojson
    \/ FixInvalidGeometries

SpecOsm == OsmRunInit /\ [][OsmNext]_vars

\* One call of lulc_mapping.
MappingCallInit ==
    /\ ImpedanceIdle
    /\ BufferIdle
    /\ RepairIdle
    /\ OsmIdle
    /\ StressorsIdle
    /\ PaIdle
    /\ FilterIdle
    /\ MaxValueIdle
    /\ LandIdle
    /\ ShellIdle
    /\ \E v \in UserMatchings, codes \in LulcCodeMaps,
          matched \in LulcCodeMaps :
          MappingStart(v, codes, matched)

SpecMapping == MappingCallInit /\ [][LulcMapping]_vars

\* One call of process_stressors.
StressorsCallInit ==
    /\ ImpedanceIdle
    /\ BufferIdle
    /\ RepairIdle
    /\ OsmIdle
    /\ MappingIdle
    /\ PaIdle
    /\ FilterIdle
    /\ MaxValueIdle
    /\ LandIdle
    /\ ShellIdle
    /\ \E from_lulc \in Registries, from_osm \in Registries :
          StressorsStart(from_lulc, from_osm)

SpecStressors == StressorsCallInit /\ [][ProcessStressors]_vars

\* WDPA_Preprocessor.rasterize_pas_by_year: filter, then rasterize.
PaRunInit ==
    /\ ImpedanceIdle
    /\ BufferIdle
    /\ RepairIdle
    /\ OsmIdle
    /\ MappingIdle
    /\ StressorsIdle
    /\ FilterIdle
    /\ MaxValueIdle
    /\ LandIdle
    /\ ShellIdle
    /\ \E gdf \in BoundedSeqs(Dates, MaxAreas),
          stamps \in DistinctSeqs(Years, Cardinality(Years)) \ {<<>>},
          keep \in BOOLEAN :
          PaStart(gdf, stamps, keep)

PaNext ==
    \/ FilterPaByYear
    \/ RasterizeBegin
    \/ RasterizeStep
    \/ RasterizeReturn

SpecPA == PaRunInit /\ [][PaNext]_vars

\* The filtering of one GeoJSON file.
FilteringInit ==
    /\ ImpedanceIdle
    /\ BufferIdle
    /\ RepairIdle
    /\ OsmIdle
    /\ MappingIdle
    /\ StressorsIdle
    /\ PaIdle
    /\ MaxValueIdle
    /\ LandIdle
    /\ ShellIdle
    /\ \E name \in QueryNames,
          features \in BoundedSeqs(Features, MaxGeojson) :
          FilterStart(name, features)

SpecFilter == FilteringInit /\ [][FilterGeojson]_vars

\* One call of get_impedance_max_value on a constructed wrapper.
MaxValueCallInit ==
    /\ BufferIdle
    /\ RepairIdle
    /\ OsmIdle
    /\ MappingIdle
    /\ StressorsIdle
    /\ PaIdle
    /\ FilterIdle
    /\ LandIdle
    /\ ShellIdle
    /\ \E lulc \in InitialLulcStates, cfg \in YearConfigs :
          ImpedanceStart(lulc, cfg)
    /\ \E template \in ImpedanceTifs, on_disk \in BOOLEAN, exceptions \in BOOLEAN :
          MaxValueStart(template, on_disk, exceptions)

SpecMaxValue == MaxValueCallInit /\ [][GetImpedanceMaxValue]_vars

\* The construction of an UpdateLandImpedance over a folder of rasters.
LandRunInit ==
    /\ ImpedanceIdle
    /\ BufferIdle
    /\ RepairIdle
    /\ OsmIdle
    /\ MappingIdle
    /\ StressorsIdle
    /\ PaIdle
    /\ FilterIdle
    /\ MaxValueIdle
    /\ ShellIdle
    /\ \E table \in ReclassTables,
          tiffs \in BoundedSeqs(InputRasters, MaxTiffs) :
          LandStart(table, tiffs)

SpecLand == LandRunInit /\ [][ReclassifyAndCompress]_vars

\* One call of run_shell_command.
ShellCallInit ==
    /\ ImpedanceIdle
    /\ BufferIdle
    /\ RepairIdle
    /\ OsmIdle
    /\ MappingIdle
    /\ StressorsIdle
    /\ PaIdle
    /\ FilterIdle
    /\ MaxValueIdle
    /\ LandIdle
    /\ \E script \in Scripts, works \in BOOLEAN : ShellStart(script, works)

SpecShell == ShellCallInit /\ [][RunShellCommand]_vars

\* The run of a wrapper configured with one year and no initial_lulc entry, the
\* file edited by hand between process_impedance_config and the validation.
EditRunInit ==
    /\ BufferIdle
    /\ RepairIdle
    /\ OsmIdle
    /\ MappingIdle
    /\ StressorsIdle
    /\ PaIdle
    /\ FilterIdle
    /\ MaxValueIdle
    /\ LandIdle
    /\ ShellIdle
    /\ ImpedanceStart("absent", PyInt(2018))

SpecEdit == EditRunInit /\ [][Next]_vars

----------------------------------------------------------------------------
(* Properties of the ImpedanceWrapper run *)

Registered == SeqToSet(impedance_stressors)

\* A parameter set that has exactly the template's keys, each with the
\* template's type.
ExactMatch(p) ==
    /\ DOMAIN p = TemplateKeys
    /\ \A k \in TemplateKeys : p[k].type = params_placeholder[k].type

\* Every way a parameter set departs from the template.
Violations(alias, p) ==
    {Warning(alias, "unexpected", k) : k \in DOMAIN p \ TemplateKeys}
    \cup {Warning(alias, "datatype", k) :
             k \in {j \in DOMAIN p \cap TemplateKeys :
                       p[j].type # params_placeholder[j].type}}
    \cup {Warning(alias, "missing", k) : k \in TemplateKeys \ DOMAIN p}

\* A parameter set that is valid but for one required key, k, which it lacks.
MissesExactly(p, k) ==
    /\ k \in TemplateKeys
    /\ DOMAIN p = TemplateKeys \ {k}
    /\ \A j \in DOMAIN p : p[j].type = params_placeholder[j].type

SetMax(S) == CHOOSE m \in S : \A x \in S : x <= m

OpenedEffects ==
    {processed[i].effect : i \in {j \in 1..Len(processed) : processed[j].opened}}

\* The cell-wise maximum over the stressors that opened; None when none did.
ExpectedAccumulator ==
    IF OpenedEffects = {} THEN NoRaster
    ELSE [c \in Cells |-> SetMax({e[c] : e \in OpenedEffects})]

\* C1: the configuration handed to every Impedance_processor is the one that
\* was reloaded from the YAML file and validated, hand edits included.
C1_HandedConfigIsTheReloadedFile ==
    \A i \in 1..Len(processed) : processed[i].config_impedance = yaml_file

\* C2: when validate_impedance_config raises, a warning has been emitted for
\* every violation of every stressor alias in the registry.
C2_EveryViolationWarnedBeforeRaise ==
    validation = "failed" =>
        \A a \in Registered :
            Violations(a, AsDict(yaml_file.stressors[a])) \subseteq SeqToSet(warnings)

\* C3: validate_impedance_config raises if and only if some stressor's
\* parameter set does not exactly match the template (an unexpected key, a
\* type that differs, a required key absent).
C3_RaisesIffSomeMismatch ==
    validation # "pending" =>
        (validation = "failed" <=>
            \E a \in Registered : ~ExactMatch(AsDict(yaml_file.stressors[a])))

\* C3 witness: validation raised on a parameter set that has as many keys as
\* the template, one of them unexpected and a required one absent.
C3_Witness ==
    /\ validation = "failed"
    /\ \E a \in Registered :
          LET p == AsDict(yaml_file.stressors[a])
          IN /\ Cardinality(DOMAIN p) = Cardinality(TemplateKeys)
             /\ DOMAIN p # TemplateKeys

\* C4: for a parameter set that is valid but for one missing required key (the
\* stressors before it matching the template), validation raises and its
\* warnings name exactly that missing key.
C4_ReportsExactlyTheMissingKey ==
    validation # "pending" =>
        \A i \in 1..Len(impedance_stressors), k \in TemplateKeys :
            (/\ MissesExactly(AsDict(yaml_file.stressors[impedance_stressors[i]]), k)
             /\ \A j \in 1..(i - 1) :
                   ExactMatch(AsDict(yaml_file.stressors[impedance_stressors[j]])))
            => /\ validation = "failed"
               /\ warnings = <<Warning(impedance_stressors[i], "missing", k)>>

\* C4 witness: validation has run on a registry whose second stressor misses
\* exactly one required key.
C4_Witness ==
    /\ validation = "failed"
    /\ Len(impedance_stressors) >= 2
    /\ ExactMatch(AsDict(yaml_file.stressors[impedance_stressors[1]]))
    /\ \E k \in TemplateKeys :
          MissesExactly(AsDict(yaml_file.stressors[impedance_stressors[2]]), k)

\* C5: whichever stressors fail to open, calculate_impedance iterates every
\* stressor of the registry and finishes without raising.
C5_SkipsNeverAbortTheRun ==
    /\ pc # "raised"
    /\ pc = "done" => Len(processed) = Len(impedance_stressors)

\* C6: the accumulator is, at each cell, the maximum over the stressors that
\* opened of their effect rasters; it is None until one opens, and a skipped
\* stressor leaves it as it is.
C6_AccumulatorIsCellwiseMax == max_result = ExpectedAccumulator

\* C6 witness: the loop has ended with two opened stressors whose cell-wise
\* maximum is neither of their rasters.
C6_Witness ==
    /\ pc = "done"
    /\ max_result # NoRaster
    /\ max_result \notin OpenedEffects
    /\ Cardinality(OpenedEffects) >= 2

\* C7: update_impedance_with_decay runs exactly once per calculate_impedance
\* call, after every stressor has been processed or skipped, on the accumulator
\* of every stressor that opened.
C7_DecayRunsOnceOnFullAccumulator ==
    /\ Len(decay_runs) <= 1
    /\ \A i \in 1..Len(decay_runs) :
          /\ decay_runs[i].after = Len(impedance_stressors)
          /\ decay_runs[i].max_result = ExpectedAccumulator
    /\ pc \in {"done", "raised"} => Len(decay_runs) = 1

----------------------------------------------------------------------------
(* Properties of buffer_features *)

FreshLayers == {l \in Layers : out_files[l].status = "fresh"}

\* A width that reads as a number: a number, or text made of digits only.
Castable(w) ==
    \/ w.kind = "real"
    \/ /\ w.kind = "text"
       /\ w.text # <<>>
       /\ \A i \in 1..Len(w.text) : w.text[i] \in Digits

WidthValue(w) == IF w.kind = "real" THEN w.num ELSE PrefixValue(w.text, 0)

\* The half-width the specification gives a row.
StatedHalfWidth(row) ==
    IF ~Castable(row.width)
    THEN IF row.highway \in {"motorway", "motorway_link", "trunk", "trunk_link"}
         THEN Rat(15, 1)
         ELSE IF row.highway \in {"primary", "primary_link", "secondary",
                                   "secondary_link"}
              THEN Rat(10, 1)
              ELSE Rat(5, 1)
    ELSE Rat(WidthValue(row.width), 2)

\* C9: the buffer half-width of a feature is 15, 10 or 5 by highway class when
\* its width is null or not castable to a number, and width/2 when its width is
\* a number.
C9_HalfWidthAsStated ==
    \A l \in FreshLayers :
        RatEq(out_files[l].row.distance, StatedHalfWidth(out_files[l].row))

\* What a flag says of the CRS: a bool or an int by its value, a str by the
\* word it spells; None says nothing and passes for "not cartesian".
SaysCartesian(flag) ==
    CASE flag.type \in {"bool", "int"} -> flag.val = 1
      [] flag.type = "str" -> flag.val = "True"
      [] OTHER -> FALSE

\* C10: whatever value the flag takes, as long as it says of the CRS what the
\* CRS is: in a CRS that is not projected the buffer is computed in the
\* temporary metric projection and the geometry written is back in the
\* original CRS; in a projected CRS the buffer is computed in the source CRS
\* itself.
C10_BufferCrsFollowsProjectedness ==
    SaysCartesian(is_cartesian) = Projected(crs) =>
        \A l \in FreshLayers :
            LET r == out_files[l].row
            IN /\ r.geometry_crs = crs
               /\ r.buffer_crs = IF Projected(crs) THEN crs ELSE DefaultEpsg

\* The calls whose ogr2ogr run failed.
FailedRuns ==
    {i \in 1..Len(buffer_log) :
        buffer_log[i].outcome \in {"CalledProcessError", "Exception"}}

\* C11 as stated: no failure of a buffer_features call ever reaches the caller.
C11_NoFailurePropagates ==
    \A i \in 1..Len(buffer_log) : ~buffer_log[i].propagated

\* C11, amended: a failure of the ogr2ogr run is caught, leaves no output for
\* its layer and leaves the caller free to buffer the next layer; the one
\* failure that reaches the caller is that of removing an existing output.
C11_Ogr2ogrFailuresAreCaught ==
    /\ \A i \in FailedRuns : ~buffer_log[i].propagated
    /\ \A i \in 1..Len(buffer_log) :
          buffer_log[i].propagated => buffer_log[i].outcome = "OSError"
    /\ (~BufferAborted /\ Len(buffer_log) < MaxCalls) => ENABLED BufferFeatures

\* A call fails inside the try, and the next call buffers another layer.
C11_Witness ==
    \E i \in FailedRuns :
        /\ buffer_log[i].outcome = "Exception"
        /\ i < Len(buffer_log)
        /\ buffer_log[i + 1].outcome = "ok"
        /\ buffer_log[i + 1].layer # buffer_log[i].layer

----------------------------------------------------------------------------
(* Properties of fix_geometries_in_gpkg *)

\* The features of a layer that have an invalid geometry.
InvalidIn(layer) ==
    {j \in 1..Len(layer) : layer[j] # NullGeometry /\ ~IsValid(layer[j])}

\* The invalid features whose repair gives a valid geometry.
Fixable(layer) ==
    {j \in InvalidIn(layer) :
        MakeValid(layer[j]) # NullGeometry /\ IsValid(MakeValid(layer[j]))}

\* C12: every layer of the GeoPackage is passed over, and for every layer passed
\* over the features needing a fix are exactly the invalid ones of the input,
\* they split into fixed and unfixable, the valid and the unfixable features
\* keep their geometry, the fixed ones get the repaired one, and no more
\* features are invalid after the pass than before.
C12_LayerPassCountsAndReplaces ==
    /\ repair_pc # "AttributeError"
    /\ \A i \in 1..Len(layer_counts) :
        LET before == gpkg_in[i]
            after == gpkg[i]
            c == layer_counts[i]
        IN /\ c.feature_to_fix_count = Cardinality(InvalidIn(before))
           /\ c.feature_to_fix_count = c.fixed_feature_count + c.invalid_feature_count
           /\ c.fixed_feature_count = Cardinality(Fixable(before))
           /\ Len(after) = Len(before)
           /\ \A j \in 1..Len(before) :
                 after[j] = IF j \in Fixable(before) THEN MakeValid(before[j])
                            ELSE before[j]
           /\ Cardinality(InvalidIn(after)) <= Cardinality(InvalidIn(before))

\* C13: a finished call has printed one report per layer of the GeoPackage,
\* each with the counts of its own layer, whatever the number of layers.
C13_OneReportPerLayer ==
    /\ repair_pc # "UnboundLocalError"
    /\ repair_pc = "done" =>
          /\ Len(reports) = Len(gpkg_in)
          /\ \A i \in 1..Len(reports) : reports[i] = Report(layer_counts[i])

----------------------------------------------------------------------------
(* Properties of process_stressors *)

LulcAliases == SeqToSet(Keys(lulc_found))
OsmAliases == SeqToSet(Keys(osm_found))

\* C16: the LULC collaborator runs first and the OSM collaborator second, each
\* on the registry and the impedance configuration the previous step returned,
\* so that the configuration returned is the processor's impedance
\* configuration with the stressors' parameters; the returned registry holds
\* every alias either collaborator registered, the aliases of the LULC
\* collaborator before those of the OSM collaborator, and an alias both
\* registered carries the raster and parameters of the OSM collaborator, the
\* last writer.
C16_LulcThenOsmLastWriterWins ==
    stressors_result # NoResult =>
        LET reg == stressors_result.impedance_stressors
            cfg == stressors_result.config_impedance
        IN /\ collaborators[1].config_impedance = Config("false", NoStressors)
           /\ collaborators[2].impedance_stressors = SetItems(<<>>, lulc_found)
           /\ collaborators[2].config_impedance.loaded_from = "config_impedance.yaml"
           /\ cfg.loaded_from = "config_impedance.yaml"
           /\ cfg.initial_lulc = "false"
           /\ SeqToSet(Keys(reg)) = LulcAliases \cup OsmAliases
           /\ \A i, j \in 1..Len(reg) :
                 (reg[i].alias \in LulcAliases \ OsmAliases /\ reg[j].alias \in OsmAliases)
                    => i < j
           /\ \A i \in 1..Len(reg) :
                 reg[i].raster =
                    IF reg[i].alias \in OsmAliases
                    THEN RasterPath("osm", reg[i].alias)
                    ELSE RasterPath("lulc", reg[i].alias)
           /\ DOMAIN cfg.stressors = LulcAliases \cup OsmAliases
           /\ \A a \in DOMAIN cfg.stressors : cfg.stressors[a] = PlaceholderItems

----------------------------------------------------------------------------
(* Properties of lulc_mapping *)

Called == mapping_result # Raised("pending")

WantsUserCodes == user_matching.type = "str" /\ Lower(user_matching.val) = TrueText
WantsTextMatching == user_matching.type = "str" /\ Lower(user_matching.val) = FalseText

\* C15: lulc_mapping returns the lulc_codes entry for 'true', the text-matching
\* result for 'false' (in any letter case), and raises the ValueError for every
\* other user_matching, an absent or null entry and a YAML boolean included.
C15_ValueErrorUnlessTrueOrFalse ==
    Called =>
        mapping_result =
            IF WantsUserCodes THEN Returned(lulc_codes)
            ELSE IF WantsTextMatching THEN Returned(text_codes)
            ELSE Raised("ValueError")

----------------------------------------------------------------------------
(* Properties of the OSM run *)

\* C14: every stage of the run reads and writes the files of the first
\* configured year only.
C14_OnlyFirstYearTouched ==
    \A t \in osm_touched : t.year = osm_years[1]

----------------------------------------------------------------------------
(* Properties of the protected-area rasterization *)

Stamps == SeqToSet(year_stamps)

EstablishedBy(y) == {i \in 1..Len(pa_gdf) : pa_gdf[i].year <= y}

\* C17: once filter_pa_by_year has run there is a slice for every year stamp,
\* holding exactly the areas established in that year or earlier, and the
\* slice of an earlier stamp is part of the slice of a later one.
C17_SliceIsEstablishedByYear ==
    pa_pc = "filtered" =>
        /\ \A y \in Stamps :
              /\ pa_slices[y].exists
              /\ pa_slices[y].areas = EstablishedBy(y)
        /\ \A y1, y2 \in Stamps :
              y1 <= y2 => pa_slices[y1].areas \subseteq pa_slices[y2].areas

Listed == {y \in Years : \E i \in 1..Len(raster_log) : raster_log[i].year = y}

\* C19: when rasterize_pas_by_year returns, gdal_rasterize has been run on
\* every slice of the output directory, whatever failed before it, and
\* without keep_intermediate_gpkg no slice GeoPackage is left.
C19_EverySliceAttemptedAndRemoved ==
    pa_pc = "returned" =>
        /\ Listed = Stamps
        /\ Len(raster_log) = Cardinality(Stamps)
        /\ \A y \in Stamps : pa_rasters[y] =
              (\E i \in 1..Len(raster_log) :
                  raster_log[i] = [year |-> y, outcome |-> "ok"])
        /\ ~keep_gpkg => \A y \in Years : ~pa_slices[y].exists
        /\ keep_gpkg => \A y \in Stamps : pa_slices[y].exists

\* The first slice failed to rasterize, the second succeeded, none is kept.
C19_Witness ==
    /\ pa_pc = "returned"
    /\ ~keep_gpkg
    /\ Len(raster_log) = 2
    /\ raster_log[1].outcome = "CalledProcessError"
    /\ raster_log[2].outcome = "ok"

----------------------------------------------------------------------------
(* Properties of the year entry *)

\* C18: a missing or null year makes every wrapper warn and fall back to a
\* default year, so that its reading of years[0] succeeds.
C18_MissingYearWarnedAndDefaulted ==
    /\ OsmYears(PyNone).warned /\ OsmYears(PyNone).years # <<>>
    /\ EnrichmentYears(PyNone).warned /\ EnrichmentYears(PyNone).years # <<>>
    /\ ImpedanceYears(PyNone).warned
    /\ year_warned => years # <<>>
    /\ error # "IndexError"

----------------------------------------------------------------------------
(* Properties of the GeoJSON filter *)

\* The level a value stands for, whatever its encoding.
LevelNumber(value) ==
    CASE value.type = "int" -> value.val
      [] value = PyStr("0") -> 0
      [] OTHER -> 1

GroundOrNoLevel(feature) ==
    LET value == GetLevel(feature.properties)
    IN value = PyNone \/ LevelNumber(value) = 0

StatedKeeps(name, feature) ==
    IF name \in {"roads", "railways", "waterways"}
    THEN feature.gtype \in {"LineString", "MultiLineString"} /\ GroundOrNoLevel(feature)
    ELSE IF name = "waterbodies"
    THEN feature.gtype \in {"Polygon", "MultiPolygon"}
    ELSE TRUE

\* C20: the filtered file holds, in the order of the input, exactly the
\* features of the stated geometry types whose level is absent, null or the
\* ground level 0 in any encoding (lines), the polygons (waterbodies), or
\* every feature (any other query).
C20_KeepsStatedFeaturesInOrder ==
    filter_pc = "filtered" =>
        LET stated == SelectSeq(geojson_features,
                                LAMBDA f : StatedKeeps(query_name, f))
        IN filtered_features = [i \in 1..Len(stated) |-> LowerKeys(stated[i])]

----------------------------------------------------------------------------
(* Properties of the OSM run, continued *)

Geojson(t) == osm_files[OsmFile(t, osm_year, "geojson")]
Filtered(t) == osm_files[OsmFile(t, osm_year, "filtered")]
Json(t) == osm_files[OsmFile(t, osm_year, "json")]

\* C21: fix_invalid_geometries returns the list of the filtered files it wrote,
\* one per theme whose GeoJSON existed and was not empty, each written to
\* <theme>_<year>_filtered.geojson with the original left in place.
C21_ReturnsTheFilteredFiles ==
    osm_pc = "filtered" =>
        /\ osm_returned =
              [type |-> "list",
               val |-> {OsmFile(t, osm_year, "filtered") :
                           t \in {q \in Themes : Geojson(q) = "data"}}]
        /\ \A t \in Themes : Geojson(t) = "data" => Filtered(t) = "data"

\* C26: at the end of get_osm_data every theme whose fetch succeeded has its
\* filtered file of the wrapper's year, and a theme whose fetch failed has none.
C26_FetchedThemesAreFiltered ==
    osm_pc = "filtered" =>
        \A t \in Themes : (Json(t) = "data") <=> (Filtered(t) = "data")

----------------------------------------------------------------------------
(* Properties of get_impedance_max_value *)

\* C22: get_impedance_max_value raises FileNotFoundError whenever the impedance
\* raster is not configured or cannot be found, and otherwise returns the
\* opened dataset with its maximum.
C22_FileNotFoundUnlessRasterPresent ==
    max_value # Pending =>
        IF impedance_tif = PyNone \/ ~tif_on_disk
        THEN max_value.outcome = "FileNotFoundError"
        ELSE max_value.outcome = "returned"

----------------------------------------------------------------------------
(* Properties of buffer_features, continued *)

LastCall(log) == log[Len(log)]

\* C29: a call of buffer_features that fails for a layer leaves the buffered
\* output that existed before the call as it was; only a successful run
\* replaces a previous output.
C29_FailedCallKeepsPreviousOutput ==
    [][(/\ Len(buffer_log') = Len(buffer_log) + 1
        /\ LastCall(buffer_log').outcome # "ok")
       => out_files' = out_files]_vars

----------------------------------------------------------------------------
(* Properties of the GeoPackage repair, continued *)

RepairEnded ==
    repair_pc \in {"done", "UnboundLocalError", "SameFileError", "AttributeError"}

\* C28: for every fixed_gpkg (None or another path) and overwrite_original,
\* fix_geometries_in_gpkg completes without raising and input_gpkg still
\* exists; with fixed_gpkg None the repairs are applied in place; with
\* overwrite_original the input holds the repaired geometries and the separate
\* copy is removed.
C28_CompletesForEveryArgumentPair ==
    RepairEnded =>
        /\ repair_pc = "done"
        /\ input_file.exists
        /\ fixed_gpkg = PyNone => input_file = OnDisk(gpkg)
        /\ overwrite_original =>
              /\ input_file = OnDisk(gpkg)
              /\ fixed_gpkg # PyNone => ~fixed_file.exists

----------------------------------------------------------------------------
(* Properties of process_stressors, continued *)

\* C30: every collaborator built by process_stressors holds the main
\* configuration in its field config and the impedance configuration in its
\* field config_impedance.
C30_CollaboratorsHoldTheirConfigurations ==
    \A i \in 1..Len(collaborators) :
        /\ collaborators[i].config.loaded_from = "config.yaml"
        /\ collaborators[i].config_impedance.loaded_from = "config_impedance.yaml"

----------------------------------------------------------------------------
(* Properties of UpdateLandImpedance *)

Returned23(i) == reclassified[i].raised = "none"

\* C23: the data type reclassify_raster returns, which is passed to the
\* compression, is Float32 or Int32 and is the type of the raster it created:
\* Int32 for a table of integer impedances only, Float32 for decimal ones.
C23_ReturnedTypeIsTheCreatedType ==
    \A i \in 1..Len(reclassified) :
        Returned23(i) =>
            /\ reclassified[i].data_type \in {"Float32", "Int32"}
            /\ reclassified[i].data_type = reclassified[i].created
            /\ reclassified[i].data_type =
                  IF HasDecimal(reclass_table) THEN "Float32" ELSE "Int32"

\* The impedance the table states for a pixel, 9999 for the no-data codes, in
\* tenths.
StatedImpedance(code) ==
    IF code \in NodataCodes THEN 10 * Nodata
    ELSE AsFloat(reclass_table[code]).val

\* C24: reclassify_raster gives every pixel a defined impedance: the table's
\* value for a listed code, 9999 for the no-data codes even when listed, and no
\* pixel is left undefined whatever the input.
C24_EveryPixelGetsAnImpedance ==
    \A i \in 1..Len(reclassified) :
        /\ Returned23(i)
        /\ \A j \in 1..NumCells :
              LET code == tiff_files[i].pixels[j]
                  out == reclassified[i].output_data[j]
              IN /\ out # PyNone
                 /\ out # NaN
                 /\ code \in DOMAIN reclass_table \cup NodataCodes =>
                       AsFloat(out).val = StatedImpedance(code)

\* C27: when the loop iteration of a raster has ended, its impedance file
\* exists and no _compr file remains, whether or not gdal_translate succeeded.
C27_ImpedanceFileSurvivesCompression ==
    \A i \in 1..Len(land_files) :
        reclassified[i].raised = "none" =>
            /\ land_files[i].impedance.exists
            /\ ~land_files[i].compr.exists

----------------------------------------------------------------------------
(* Properties of run_shell_command *)

\* C25: run_shell_command always ends by returning after a zero exit or by
\* raising CalledProcessError, also for a script that keeps failing with a
\* syntax error after the conversion: the conversion with retry is not repeated
\* until the interpreter stops it.
C25_EndsByReturnOrCalledProcessError ==
    shell_outcome \in {"running", "returned", "CalledProcessError"}

====
